---- MODULE Spec2Model ----
(***************************************************************************)
(* Parts aggregation and margin ranking of the Kanupi shop dashboard:      *)
(* the results page's request effect (fan-out, merge, cancellation), the   *)
(* margin calculator, the filter and sort pipeline and the smart filter.   *)
(* Money is in cents, percentages of margin in tenths of a percent;        *)
(* arithmetic is exact (no binary floating point).                         *)
(***************************************************************************)
EXTENDS Integers, Sequences, FiniteSets, TLC

VARIABLES
    mounted,        \* the ResultsPage component is mounted
    nreq,           \* number of effect runs so far; the last one is the current request
    req,            \* per effect run: its closure (url, controller, position, tasks)
    shopExcluded,   \* useShop().excludedBrands
    rawResults,     \* useState: rawResults
    partGroups,     \* useState: partGroups
    loading,        \* useState: loading
    error,          \* useState: error
    issued,         \* number of search calls issued so far
    session,        \* useShop().session: its access token, if any
    history,        \* the entries posted to the search-history log so far
    marginRules,    \* useShop().marginRules / the rules argument of the calculator
    part,           \* the part handed to the margin calculator
    matched,        \* what findMatchingRule returned for part
    priced,         \* what enrichPartWithMargin returned for part
    filters,        \* useState: filters
    sortBy,         \* useState: sortBy
    smartFilterActive,  \* useState: smartFilterActive
    smartFilterText,    \* useState: smartFilterText
    selectedIds,    \* useState: selectedIds
    orders,         \* the orders posted by "Add to Order" so far
    edits,          \* number of filter, sort and selection changes made on the page so far
    upstream,       \* per search call: the hits of the provider's answer, as delivered
    normalized,     \* per search call: what results.map(mapApiResult) made of them
    smartInput,     \* the arguments of a call of parseSmartFilter
    parseResult     \* what that call returned

pageVars == <<mounted, nreq, req, shopExcluded, rawResults, partGroups, loading, error, issued,
              session, history>>
calcVars == <<part, matched, priced>>
viewVars == <<filters, sortBy, smartFilterActive, smartFilterText, selectedIds, orders, edits>>
normVars == <<upstream, normalized>>
parseVars == <<smartInput, parseResult>>
vars == <<pageVars, marginRules, calcVars, viewVars, normVars, parseVars>>

\* ----------------------------------------------------------------- bounds
MaxReq == 2
MaxQueries == 2
MaxHits == 2
MaxCalls == 3
MaxRules == 2
MaxViewQueries == 3
MaxEdits == 2
MaxBatch == 2
MaxBrands == 2

NULL == "null"

\* ------------------------------------------------------------------ text
\* Where the code looks inside a string (toLowerCase, includes, trim, match)
\* the string is taken character by character: Spell gives its characters.
Spelling ==
    ("" :> << >>)
    @@ ("Bosch" :>
          << "B", "o", "s", "c", "h" >>)
    @@ ("bosch" :>
          << "b", "o", "s", "c", "h" >>)
    @@ ("BOSCH" :>
          << "B", "O", "S", "C", "H" >>)
    @@ ("Akebono" :>
          << "A", "k", "e", "b", "o", "n", "o" >>)
    @@ ("Duralast" :>
          << "D", "u", "r", "a", "l", "a", "s", "t" >>)
    @@ ("Unknown" :>
          << "U", "n", "k", "n", "o", "w", "n" >>)
    @@ ("brake_pads" :>
          << "b", "r", "a", "k", "e", "_", "p", "a", "d", "s" >>)
    @@ ("Brake_Pads" :>
          << "B", "r", "a", "k", "e", "_", "P", "a", "d", "s" >>)
    @@ ("Bosch Ceramic Brake Pads" :>
          << "B", "o", "s", "c", "h", " ", "C", "e", "r", "a", "m", "i", "c", " ", "B", "r", "a", "k", "e", " ", "P", "a", "d", "s" >>)
    @@ ("Duralast Engine" :>
          << "D", "u", "r", "a", "l", "a", "s", "t", " ", "E", "n", "g", "i", "n", "e" >>)
    @@ ("Brake Rotor" :>
          << "B", "r", "a", "k", "e", " ", "R", "o", "t", "o", "r" >>)
    @@ ("ebay" :>
          << "e", "b", "a", "y" >>)
    @@ ("amazon" :>
          << "a", "m", "a", "z", "o", "n" >>)
    @@ ("eBay" :>
          << "e", "B", "a", "y" >>)
    @@ ("Amazon" :>
          << "A", "m", "a", "z", "o", "n" >>)
    @@ ("ceramic" :>
          << "c", "e", "r", "a", "m", "i", "c" >>)
    @@ ("semi-metallic" :>
          << "s", "e", "m", "i", "-", "m", "e", "t", "a", "l", "l", "i", "c" >>)
    @@ ("semi metallic" :>
          << "s", "e", "m", "i", " ", "m", "e", "t", "a", "l", "l", "i", "c" >>)
    @@ ("semimetallic" :>
          << "s", "e", "m", "i", "m", "e", "t", "a", "l", "l", "i", "c" >>)
    @@ ("organic" :>
          << "o", "r", "g", "a", "n", "i", "c" >>)
    @@ ("carbon fiber" :>
          << "c", "a", "r", "b", "o", "n", " ", "f", "i", "b", "e", "r" >>)
    @@ ("under" :>
          << "u", "n", "d", "e", "r" >>)
    @@ ("below" :>
          << "b", "e", "l", "o", "w" >>)
    @@ ("max" :>
          << "m", "a", "x" >>)
    @@ ("less than" :>
          << "l", "e", "s", "s", " ", "t", "h", "a", "n" >>)
    @@ ("cheaper than" :>
          << "c", "h", "e", "a", "p", "e", "r", " ", "t", "h", "a", "n" >>)
    @@ ("over" :>
          << "o", "v", "e", "r" >>)
    @@ ("above" :>
          << "a", "b", "o", "v", "e" >>)
    @@ ("min" :>
          << "m", "i", "n" >>)
    @@ ("more than" :>
          << "m", "o", "r", "e", " ", "t", "h", "a", "n" >>)
    @@ ("at least" :>
          << "a", "t", " ", "l", "e", "a", "s", "t" >>)
    @@ ("in stock" :>
          << "i", "n", " ", "s", "t", "o", "c", "k" >>)
    @@ ("available now" :>
          << "a", "v", "a", "i", "l", "a", "b", "l", "e", " ", "n", "o", "w" >>)
    @@ ("available today" :>
          << "a", "v", "a", "i", "l", "a", "b", "l", "e", " ", "t", "o", "d", "a", "y" >>)
    @@ ("same day" :>
          << "s", "a", "m", "e", " ", "d", "a", "y" >>)
    @@ ("premium" :>
          << "p", "r", "e", "m", "i", "u", "m" >>)
    @@ ("best" :>
          << "b", "e", "s", "t" >>)
    @@ ("quality" :>
          << "q", "u", "a", "l", "i", "t", "y" >>)
    @@ ("mid-range" :>
          << "m", "i", "d", "-", "r", "a", "n", "g", "e" >>)
    @@ ("better" :>
          << "b", "e", "t", "t", "e", "r" >>)
    @@ ("economy" :>
          << "e", "c", "o", "n", "o", "m", "y" >>)
    @@ ("budget" :>
          << "b", "u", "d", "g", "e", "t" >>)
    @@ ("cheap" :>
          << "c", "h", "e", "a", "p" >>)
    @@ ("not " :>
          << "n", "o", "t", " " >>)
    @@ ("no " :>
          << "n", "o", " " >>)
    @@ ("exclude " :>
          << "e", "x", "c", "l", "u", "d", "e", " " >>)
    @@ ("without " :>
          << "w", "i", "t", "h", "o", "u", "t", " " >>)
    @@ ("skip " :>
          << "s", "k", "i", "p", " " >>)
    @@ ("ceramic under $30 not Duralast in stock" :>
          << "c", "e", "r", "a", "m", "i", "c", " ", "u", "n", "d", "e", "r", " ", "$", "3", "0", " ", "n", "o", "t", " ", "D", "u", "r", "a", "l", "a", "s", "t", " ", "i", "n", " ", "s", "t", "o", "c", "k" >>)
    @@ ("not duralast no bosch" :>
          << "n", "o", "t", " ", "d", "u", "r", "a", "l", "a", "s", "t", " ", "n", "o", " ", "b", "o", "s", "c", "h" >>)
    @@ ("under $1500" :>
          << "u", "n", "d", "e", "r", " ", "$", "1", "5", "0", "0" >>)
    @@ ("Bosch over 10" :>
          << "B", "o", "s", "c", "h", " ", "o", "v", "e", "r", " ", "1", "0" >>)
    @@ ("  " :>
          << " ", " " >>)
    @@ ("akebono not duralast" :>
          << "a", "k", "e", "b", "o", "n", "o", " ", "n", "o", "t", " ", "d", "u", "r", "a", "l", "a", "s", "t" >>)
    @@ ("no bosch" :>
          << "n", "o", " ", "b", "o", "s", "c", "h" >>)
    @@ ("bosch on ebay over $5.5" :>
          << "b", "o", "s", "c", "h", " ", "o", "n", " ", "e", "b", "a", "y", " ", "o", "v", "e", "r", " ", "$", "5", ".", "5" >>)

Spell(s) == Spelling[s]


UpperCase ==
    << "A", "B", "C", "D", "E", "F", "G", "H", "I", "J", "K", "L", "M",
       "N", "O", "P", "Q", "R", "S", "T", "U", "V", "W", "X", "Y", "Z" >>
LowerCase ==
    << "a", "b", "c", "d", "e", "f", "g", "h", "i", "j", "k", "l", "m",
       "n", "o", "p", "q", "r", "s", "t", "u", "v", "w", "x", "y", "z" >>
Digits == << "0", "1", "2", "3", "4", "5", "6", "7", "8", "9" >>

SetMin(S) == CHOOSE x \in S : \A y \in S : x <= y
SetMax(S) == CHOOSE x \in S : \A y \in S : x >= y

\* String.prototype.toLowerCase
toLowerCase(t) ==
    [k \in 1..Len(t) |->
        IF \E n \in 1..Len(UpperCase) : UpperCase[n] = t[k]
        THEN LowerCase[CHOOSE n \in 1..Len(UpperCase) : UpperCase[n] = t[k]]
        ELSE t[k]]

\* pat occurs in t at position i
occursAt(t, pat, i) ==
    /\ i + Len(pat) - 1 <= Len(t)
    /\ \A k \in 1..Len(pat) : t[i + k - 1] = pat[k]

\* String.prototype.includes
includes(t, pat) == \E i \in 1..(Len(t) - Len(pat) + 1) : occursAt(t, pat, i)

IsSpace(c) == c = " "
IsDigit(c) == \E n \in 1..Len(Digits) : Digits[n] = c
DigitValue(c) == (CHOOSE n \in 1..Len(Digits) : Digits[n] = c) - 1

\* String.prototype.trim
trim(t) ==
    LET keep == { k \in 1..Len(t) : ~IsSpace(t[k]) }
    IN  IF keep = {} THEN << >> ELSE SubSeq(t, SetMin(keep), SetMax(keep))

\* s.toLowerCase(), for every string spelled out above
LowerSpelling == [s \in DOMAIN Spelling |-> toLowerCase(Spelling[s])]
Lower(s) == LowerSpelling[s]

\* The same string up to the case of its letters.
SameIgnoringCase(a, b) == Lower(a) = Lower(b)

\* Faulty variant: a sort that turns round the elements the comparator calls equal.
SortBy_TiesReversed(seq, cmp) ==
    LET n == Len(seq)
        rank(i) == Cardinality({ j \in 1..n :
                        \/ cmp[j, i] < 0
                        \/ cmp[j, i] = 0 /\ j > i }) + 1
    IN  [k \in 1..n |-> seq[CHOOSE i \in 1..n : rank(i) = k]]

\* Array.prototype.sort with a comparator: stable; cmp[i, j] is the comparator's
\* answer for the elements at i and j, a negative one puts the element at i first.
SortBy(seq, cmp) ==
    LET n == Len(seq)
        rank(i) == Cardinality({ j \in 1..n :
                        \/ cmp[j, i] < 0
                        \/ cmp[j, i] = 0 /\ j < i }) + 1
    IN  [k \in 1..n |-> seq[CHOOSE i \in 1..n : rank(i) = k]]

\* Array.prototype.find: the index of the first element that passes, 0 if none;
\* passes[i] is the callback's answer for the element at i.
FindIndex(passes) ==
    IF \E i \in 1..Len(passes) : passes[i]
    THEN SetMin({ i \in 1..Len(passes) : passes[i] })
    ELSE 0

\* ------------------------------------------------------- upstream provider
\* What the search provider may answer: no hit, or the first MaxHits of these
\* raw hits (raw unified shape); or the call fails.
\* An upstream hit with every field absent ({}).  An absent, null or empty
\* string field is "", an absent or zero number is 0.  wrong: the fields that
\* hold a value of the wrong type (a number where a string is expected, a
\* string where a list is expected).  isObject is FALSE for a null entry.
EmptyHit ==
    [isObject |-> TRUE, wrong |-> {}, id |-> NULL, brand |-> "", title |-> "",
     price |-> 0, hasDays |-> FALSE, shippingDays |-> 0, freeShipping |-> FALSE,
     source |-> "", qualityTier |-> "", relevanceScore |-> 0,
     bestPrice |-> 0, hasSources |-> FALSE, sources |-> << >>]

\* One entry of a consolidated hit's sources, every field absent.
EmptySource ==
    [status |-> "", source |-> "", price |-> 0,
     hasDays |-> FALSE, shippingDays |-> 0, freeShipping |-> FALSE]

Catalog ==
    << [EmptyHit EXCEPT !.brand = "Bosch", !.title = "Bosch Ceramic Brake Pads",
                        !.price = 2000, !.hasDays = TRUE, !.shippingDays = 1,
                        !.source = "ebay", !.qualityTier = "premium",
                        !.relevanceScore = 80],
       [EmptyHit EXCEPT !.id = "ebay-7", !.brand = "Duralast", !.title = "Duralast Engine",
                        !.price = 180000, !.freeShipping = TRUE,
                        !.source = "amazon", !.qualityTier = "economy"],
       [EmptyHit EXCEPT !.title = "Brake Rotor", !.freeShipping = TRUE,
                        !.relevanceScore = 60] >>

Responses == { <<>>, SubSeq(Catalog, 1, MaxHits) }

\* The message of a failed call (network error or non-success status).
FailureKinds == {"Search failed"}

\* ------------------------------------------------------------- normalizer

\* The brands extractBrandFromTitle knows, longest first (those the catalog can name).
KNOWN_BRANDS == << "Duralast", "Akebono", "Bosch" >>

extractBrandFromTitle(title) ==
    LET titleLower == Lower(title)
        k == FindIndex([i \in 1..Len(KNOWN_BRANDS) |->
                           includes(titleLower, Lower(KNOWN_BRANDS[i]))])
    IN  IF k = 0 THEN "" ELSE KNOWN_BRANDS[k]

detectMaterial(title) ==
    LET lower == Lower(title)
    IN  IF includes(lower, Spell("ceramic")) THEN "Ceramic"
        ELSE IF includes(lower, Spell("semi-metallic")) \/ includes(lower, Spell("semi metallic"))
             THEN "Semi-Metallic"
        ELSE IF includes(lower, Spell("organic")) THEN "Organic"
        ELSE IF includes(lower, Spell("carbon fiber")) THEN "Carbon Fiber"
        ELSE NULL

mapSourceToVendor(source) ==
    LET lower == Lower(source)
    IN  IF lower = Spell("ebay") THEN "eBay"
        ELSE IF lower = Spell("amazon") THEN "Amazon"
        ELSE IF source # "" THEN source
        ELSE "eBay"

\* The raw unified shape's tier
Tier(rawTier) ==
    IF rawTier \in {"best", "premium", "oem"} THEN "best"
    ELSE IF rawTier \in {"good", "economy"} THEN "good"
    ELSE "better"

\* The consolidated shape's tier
ConsolidatedTier(qt) ==
    IF qt \in {"premium", "oem"} THEN "best"
    ELSE IF qt = "economy" THEN "good"
    ELSE "better"

\* Faulty variant: a figure of zero days is taken as no figure.
DeliveryHours_ZeroIsAbsent(hasDays, shippingDays, freeShipping) ==
    IF hasDays /\ shippingDays # 0
    THEN (IF shippingDays >= 1 THEN shippingDays ELSE 1) * 24
    ELSE IF freeShipping THEN 48
    ELSE 72

\* hasDays: shippingDays is neither null nor undefined
DeliveryHours(hasDays, shippingDays, freeShipping) ==
    IF hasDays THEN (IF shippingDays >= 1 THEN shippingDays ELSE 1) * 24
    ELSE IF freeShipping THEN 48
    ELSE 72

ResultId(raw, index, groupLabel) ==
    IF raw.id # NULL THEN <<"id", raw.id, 0>>
    ELSE <<"result", IF groupLabel # NULL THEN groupLabel ELSE "single", index>>

\* !!(raw.bestPrice || raw.sources)
isConsolidated(raw) ==
    raw.bestPrice # 0 \/ raw.hasSources \/ "sources" \in raw.wrong

\* raw.sources?.find((s) => s.status === 'active') || raw.sources?.[0] || {}
bestSrc(raw) ==
    LET k == FindIndex([i \in 1..Len(raw.sources) |-> raw.sources[i].status = "active"])
    IN  IF k # 0 THEN raw.sources[k]
        ELSE IF Len(raw.sources) > 0 THEN raw.sources[1]
        ELSE EmptySource

\* mapApiResult raises a TypeError: a property of a null hit is read, or a
\* method of strings or lists is called on a value that does not have it
\* (raw.sources.find, title.toLowerCase in extractBrandFromTitle, cleanTitle
\* and detectMaterial, brand.toLowerCase in cleanTitle, source.toLowerCase
\* in mapSourceToVendor).
Throws(raw) ==
    \/ ~raw.isObject
    \/ "sources" \in raw.wrong
    \/ "title" \in raw.wrong
    \/ "brand" \in raw.wrong
    \/ "source" \in raw.wrong /\ ~isConsolidated(raw)

mapApiResult(raw, index, groupLabel) ==
    LET src    == bestSrc(raw)
        price  == IF isConsolidated(raw)
                  THEN IF raw.bestPrice # 0 THEN raw.bestPrice ELSE src.price
                  ELSE raw.price
        brand  == IF raw.brand # "" THEN raw.brand
                  ELSE IF extractBrandFromTitle(raw.title) # ""
                       THEN extractBrandFromTitle(raw.title)
                  ELSE "Unknown"
        source == IF isConsolidated(raw)
                  THEN IF src.source # "" THEN src.source ELSE "ebay"
                  ELSE IF raw.source # "" THEN raw.source ELSE "eBay"
        ship   == IF isConsolidated(raw) THEN src ELSE raw
        \* a wrongly-typed label equals none of the labels it is compared with
        label  == IF "qualityTier" \in raw.wrong THEN "" ELSE raw.qualityTier
        tier   == IF isConsolidated(raw) THEN ConsolidatedTier(label) ELSE Tier(label)
    IN  [ id            |-> ResultId(raw, index, groupLabel),
          brand         |-> brand,
          material      |-> detectMaterial(raw.title),
          tier          |-> tier,
          vendor        |-> mapSourceToVendor(source),
          cost          |-> price,
          deliveryHours |-> DeliveryHours(ship.hasDays, ship.shippingDays, ship.freeShipping),
          marcusScore   |-> IF raw.relevanceScore # 0 THEN raw.relevanceScore ELSE 50,
          groupLabel    |-> groupLabel ]

\* The labels a search call can carry: a part query, a label of the url, none.
GroupLabels == {"pads", "rotors", "Front Pads", NULL}

\* mapApiResult of every hit of the catalog, at every place and label.
Normalized ==
    [k \in 1..Len(Catalog), i \in 1..Len(Catalog), label \in GroupLabels |->
        mapApiResult(Catalog[k], i - 1, label)]

\* results.map((raw, i) => mapApiResult(raw, i, label)) for hits of the catalog
MapResults(raws, label) ==
    [i \in 1..Len(raws) |->
        Normalized[CHOOSE k \in 1..Len(Catalog) : Catalog[k] = raws[i], i, label]]

\* The outcome of results.map((raw, i) => mapApiResult(raw, i, label)) for any
\* hits: the mapped list, or the TypeError the first faulty hit raises (the
\* promise of fetchSinglePart rejects, the single-part branch falls into its catch).
MapHits(raws, label) ==
    IF \E i \in 1..Len(raws) : Throws(raws[i])
    THEN [done |-> TRUE, threw |-> TRUE, results |-> << >>]
    ELSE [done |-> TRUE, threw |-> FALSE,
          results |-> [i \in 1..Len(raws) |-> mapApiResult(raws[i], i - 1, label)]]

\* ------------------------------------------------------------ URL params
Queries == {"pads", "rotors"}

\* The search params a navigation may carry.  hasParts: the parts param is
\* present (an unparsable or empty one gives partQueries = << >>).
SeqsUpTo(S, n) == UNION { [1..k -> S] : k \in 0..n }

\* Lists of part queries, up to the renaming of the queries: the first one is "pads".
PartLists == { ps \in SeqsUpTo(Queries, MaxQueries) : ps = <<>> \/ ps[1] = "pads" }
\* The labels param is absent, or holds one label (tried with a one-part list).

Urls ==
    { [q |-> q, marcus |-> "", hasParts |-> FALSE, partQueries |-> <<>>, partLabels |-> <<>>]
        : q \in Queries \cup {""} }
    \cup
    { [q |-> "", marcus |-> "grinding noise", hasParts |-> FALSE,
       partQueries |-> <<>>, partLabels |-> <<>>] }
    \cup
    { u \in { [q |-> "", marcus |-> "", hasParts |-> TRUE, partQueries |-> ps,
                partLabels |-> ls] : ps \in PartLists, ls \in { <<>>, <<"Front Pads">> } }
        : u.partLabels = <<>> \/ Len(u.partQueries) = 1 }

Query(url) == IF url.q # "" THEN url.q ELSE url.marcus
IsMarcusSearch(url) == url.marcus # ""
IsMultiPart(url) == url.hasParts

\* The effect's dependency list, as far as the url decides it.
Deps(url) == <<Query(url), url.hasParts, url.partQueries, url.partLabels>>

\* partQueries.map((q, i) => ({ query: q, label: partLabels[i] || q }))
searchPairs(queries, labels) ==
    [i \in 1..Len(queries) |->
        [query |-> queries[i],
         label |-> IF i <= Len(labels) /\ labels[i] # "" THEN labels[i] ELSE queries[i]]]

\* What the diagnosis may answer when it understood the symptom:
\* parts with their labels (a missing label falls back to the part name).
Diagnoses ==
    { [parts |-> ps, labels |-> ls]
        : ps \in PartLists \ {<<>>}, ls \in {<<>>} }

\* ------------------------------------------------------------ query tasks
Pending == [st |-> "pending", value |-> <<>>, reason |-> ""]
Fulfilled(v) == [st |-> "fulfilled", value |-> v, reason |-> ""]
Rejected(why) == [st |-> "rejected", value |-> <<>>, reason |-> why]

AllSettled(tasks) == \A i \in 1..Len(tasks) : tasks[i].st # "pending"

NoRequest ==
    [url |-> [q |-> "", marcus |-> "", hasParts |-> FALSE,
              partQueries |-> <<>>, partLabels |-> <<>>],
     pc |-> "none", aborted |-> FALSE, branch |-> "none", diag |-> "none",
     pairs |-> <<>>, tasks |-> <<>>]

\* fetchResults has returned: its closure (pairs, task results) is gone.
\* how: "done" (the try block ran to its end), "noparts" (early return),
\* "error" (catch block stored the error), "aborted" (catch block skipped an AbortError).
Finished(r, how) ==
    [NoRequest EXCEPT !.url = r.url, !.pc = how, !.aborted = r.aborted,
                      !.branch = r.branch]

FinalPcs == {"done", "noparts", "error", "aborted"}

\* Faulty variant: the search calls are issued without the controller's signal.
AbortFetches_NoSignal(tasks) == tasks

\* fetch(url, { signal: controller.signal }): an in-flight call rejects with
\* an AbortError when its controller aborts.
AbortFetches(tasks) ==
    [i \in 1..Len(tasks) |->
        IF tasks[i].st = "pending" THEN Rejected("AbortError") ELSE tasks[i]]

\* return () => controller.abort()   (an effect that returned early has no cleanup)
Cleanup(r) ==
    IF r.pc \in {"none", "skipped"} THEN r
    ELSE [r EXCEPT !.aborted = TRUE,
                   !.tasks = AbortFetches(r.tasks),
                   !.diag = IF r.diag = "pending" THEN "aborted" ELSE r.diag]

\* fetchResults up to its first await: the branch taken and the calls issued.
StartFetch(url) ==
    IF IsMultiPart(url) /\ Len(url.partQueries) > 0
    THEN [NoRequest EXCEPT !.url = url, !.pc = "awaiting", !.branch = "multi",
            !.pairs = searchPairs(url.partQueries, url.partLabels),
            !.tasks = [i \in 1..Len(url.partQueries) |-> Pending]]
    ELSE IF IsMarcusSearch(url)
    THEN [NoRequest EXCEPT !.url = url, !.pc = "diagnosing", !.branch = "marcus",
            !.diag = "pending"]
    ELSE [NoRequest EXCEPT !.url = url, !.pc = "awaiting", !.branch = "single",
            !.pairs = <<[query |-> Query(url), label |-> NULL]>>,
            !.tasks = <<Pending>>]

\* results.forEach(...) after Promise.allSettled: the hits of the fulfilled,
\* non-empty tasks, in query order.
RECURSIVE AllMapped(_, _)
AllMapped(tasks, n) ==
    IF n = 0 THEN <<>>
    ELSE AllMapped(tasks, n - 1) \o
         (IF tasks[n].st = "fulfilled" /\ Len(tasks[n].value) > 0
          THEN tasks[n].value ELSE <<>>)

\* Faulty variant: a group is recorded only for a query that delivered hits.
Groups_OnlyFulfilled(pairs, tasks) ==
    SelectSeq([i \in 1..Len(pairs) |->
                  [label |-> pairs[i].label, count |-> Len(tasks[i].value), error |-> NULL]],
              LAMBDA g : g.count > 0)

\* One group per search pair: { label, count } or { label, count: 0, error }.
Groups(pairs, tasks) ==
    [i \in 1..Len(pairs) |->
        IF tasks[i].st = "fulfilled" /\ Len(tasks[i].value) > 0
        THEN [label |-> pairs[i].label, count |-> Len(tasks[i].value), error |-> NULL]
        ELSE [label |-> pairs[i].label, count |-> 0,
              error |-> IF tasks[i].st = "rejected" THEN tasks[i].reason ELSE NULL]]

\* Remove shop's excluded brands
RemoveExcluded(results, excluded) ==
    IF excluded # {} THEN SelectSeq(results, LAMBDA p : p.brand \notin excluded)
    ELSE results

\* Log search to history (fire-and-forget): the entries posted when the
\* session has a token, one per part query of a multi-part request, else one.
searchesToLog(r, filtered) ==
    LET url == r.url
        entry(type, query, count) ==
            [search_type |-> type, query |-> query, results_count |-> count]
        labelled(label) == SelectSeq(filtered, LAMBDA p : p.groupLabel = label)
    IN  IF session = NULL THEN << >>
        ELSE IF IsMarcusSearch(url)
             THEN << entry("marcus", Query(url), Len(filtered)) >>
        ELSE IF IsMultiPart(url) /\ Len(url.partQueries) > 0
             THEN LET pairs == searchPairs(url.partQueries, url.partLabels)
                  IN  [i \in 1..Len(pairs) |->
                          entry("part", pairs[i].label, Len(labelled(pairs[i].label)))]
        ELSE << entry("part", Query(url), Len(filtered)) >>

\* Faulty variant: Promise.all instead of Promise.allSettled (the first rejection settles it).
FanOutReady_FirstFailure(tasks) ==
    \/ \E i \in 1..Len(tasks) : tasks[i].st = "rejected"
    \/ \A i \in 1..Len(tasks) : tasks[i].st = "fulfilled"

\* Promise.allSettled(searchPairs.map(...)) resolves once every task has settled.
FanOutReady(tasks) == AllSettled(tasks)

\* A promise continuation that is ready to run: the fan-out's once
\* Promise.allSettled has resolved, the catch block's once an aborted call
\* has rejected.
ContinuationReady(r) ==
    \/ r.pc = "awaiting" /\ r.branch \in {"multi", "marcus"} /\ FanOutReady(r.tasks)
    \/ r.pc = "awaiting" /\ r.branch = "single" /\ r.tasks[1].st = "rejected"
    \/ r.pc = "diagnosing" /\ r.diag = "aborted"

\* Run to completion: ready promise continuations are microtasks, the event
\* loop runs them before it takes the next event (a response, a navigation).
Quiescent == \A r \in DOMAIN req : ~ContinuationReady(req[r])

\* ------------------------------------------------------- margin calculator
\* A margin rule.  hasValue, hasPriority: the field is present (not null or
\* undefined); a missing brand or category is "", missing matrix_rules << >>.
Percentage(v) == [markup_type |-> "percentage", hasValue |-> TRUE, markup_value |-> v,
                  matrix_rules |-> << >>]
Fixed(v) == [markup_type |-> "fixed", hasValue |-> TRUE, markup_value |-> v,
             matrix_rules |-> << >>]
Matrix(tiers, hasFlat, flat) ==
    [markup_type |-> "matrix", hasValue |-> hasFlat, markup_value |-> flat,
     matrix_rules |-> tiers]

\* A tier of a matrix rule: [min, max) at pct; hasMax = FALSE: no upper end.
MatrixTier(min, hasMax, max, pct) ==
    [hasMin |-> TRUE, min |-> min, hasMax |-> hasMax, max |-> max,
     hasPct |-> TRUE, pct |-> pct]

MarginRule(type, brand, category, markup, hasPriority, priority) ==
    [rule_type |-> type, brand |-> brand, category |-> category,
     markup_type |-> markup.markup_type, hasValue |-> markup.hasValue,
     markup_value |-> markup.markup_value, matrix_rules |-> markup.matrix_rules,
     hasPriority |-> hasPriority, priority |-> priority]

\* The rules a shop may have stored (rows of b2b_margin_rules).
RulePool ==
    { MarginRule("brand", "bosch", "", Percentage(30), FALSE, 0),
      MarginRule("brand", "BOSCH", "", Percentage(0), TRUE, 5),
      MarginRule("brand", "bosch", "", Fixed(-2500), FALSE, 0),
      MarginRule("category", "", "brake_pads", Percentage(35), TRUE, 20),
      MarginRule("category", "", "brake_pads",
                 Matrix(<< [MatrixTier(0, TRUE, 2500, 50) EXCEPT !.hasMin = FALSE],
                           MatrixTier(2500, FALSE, 0, 20) >>,
                        FALSE, 0), TRUE, 0),
      MarginRule("global", "", "", Percentage(35), TRUE, 0),
      MarginRule("global", "", "", Percentage(0), FALSE, 0),
      MarginRule("global", "", "",
                 Matrix(<< MatrixTier(2500, TRUE, 5000, 10) >>, TRUE, 25), TRUE, 30),
      MarginRule("global", "", "", Fixed(500), TRUE, 1) }

\* The rules argument: a missing (null or undefined) list, or a list.
RuleLists ==
    { [present |-> FALSE, list |-> << >>] }
    \cup { [present |-> TRUE, list |-> l] : l \in UNION { [1..k -> RulePool] : k \in 0..MaxRules } }

\* The rules of the shop whose results page is shown.
ShopRules ==
    [present |-> TRUE,
     list |-> << MarginRule("brand", "bosch", "", Percentage(30), FALSE, 0),
                 MarginRule("global", "", "", Percentage(35), TRUE, 0) >>]

\* The parts the calculator may be handed (cost and price in cents; a
\* missing cost or price is 0).
Parts ==
    { [brand |-> b, partType |-> c, cost |-> k[1], price |-> k[2]]
        : b \in {"", "Bosch", "Akebono"}, c \in {"", "Brake_Pads"},
          k \in { <<-500, 0>>, <<0, 0>>, <<0, 1500>>, <<2000, 0>>, <<2500, 0>>,
                  <<5000, 0>> } }

FallbackRule ==
    MarginRule("global", "", "", Percentage(40), TRUE, 0)

\* (r.priority || 0)
Priority(r) == IF r.hasPriority THEN r.priority ELSE 0

\* Faulty variant: the rules are searched in the order they were supplied.
ByPriority_AsSupplied(safeRules) == safeRules

\* [...safeRules].sort((a, b) => (b.priority || 0) - (a.priority || 0))
ByPriority(safeRules) ==
    SortBy(safeRules, [i, j \in 1..Len(safeRules) |->
                          Priority(safeRules[j]) - Priority(safeRules[i])])

MatchesBrand(r, brand) ==
    r.rule_type = "brand" /\ Lower(r.brand) = Lower(brand)
MatchesCategory(r, category) ==
    r.rule_type = "category" /\ Lower(r.category) = Lower(category)

\* Faulty variant: the first rule by priority that matches on any tier.
findMatchingRule_ByPriority(target, rules) ==
    LET safeRules == IF rules.present THEN rules.list ELSE << >>
        sorted == ByPriority(safeRules)
        k == FindIndex([i \in 1..Len(sorted) |->
                 \/ target.brand # "" /\ MatchesBrand(sorted[i], target.brand)
                 \/ target.category # "" /\ MatchesCategory(sorted[i], target.category)
                 \/ sorted[i].rule_type = "global"])
    IN  IF k # 0 THEN sorted[k] ELSE FallbackRule

findMatchingRule(target, rules) ==
    LET safeRules == IF rules.present THEN rules.list ELSE << >>
        sorted == ByPriority(safeRules)
        brandRule == IF target.brand # ""
                     THEN FindIndex([i \in 1..Len(sorted) |->
                                        MatchesBrand(sorted[i], target.brand)])
                     ELSE 0
        categoryRule == IF target.category # ""
                        THEN FindIndex([i \in 1..Len(sorted) |->
                                           MatchesCategory(sorted[i], target.category)])
                        ELSE 0
        globalRule == FindIndex([i \in 1..Len(sorted) |-> sorted[i].rule_type = "global"])
    IN  IF brandRule # 0 THEN sorted[brandRule]
        ELSE IF categoryRule # 0 THEN sorted[categoryRule]
        ELSE IF globalRule # 0 THEN sorted[globalRule]
        ELSE FallbackRule

\* Math.round(n / d) for d > 0: halves go up.
RoundDiv(n, d) == (2 * n + d) \div (2 * d)

\* Faulty variant: a matrix tier's interval includes its upper end.
calculateListPrice_ClosedTiers(cost, rule) ==
    IF cost <= 0 THEN 0
    ELSE IF rule.markup_type = "fixed"
         THEN cost + (IF rule.hasValue THEN rule.markup_value ELSE 0)
    ELSE IF rule.markup_type = "matrix"
         THEN LET tiers == rule.matrix_rules
                  k == FindIndex([i \in 1..Len(tiers) |->
                           /\ cost >= (IF tiers[i].hasMin THEN tiers[i].min ELSE 0)
                           /\ (~tiers[i].hasMax \/ cost <= tiers[i].max)])
                  pct == IF k # 0 /\ tiers[k].hasPct THEN tiers[k].pct
                         ELSE IF rule.hasValue THEN rule.markup_value
                         ELSE 40
              IN  RoundDiv(cost * (100 + pct), 100)
    ELSE RoundDiv(cost * (100 + (IF rule.hasValue /\ rule.markup_value # 0
                                 THEN rule.markup_value ELSE 40)), 100)

\* Faulty variant: only a negative cost is floored, a cost of zero is marked up.
calculateListPrice_ZeroMarkedUp(cost, rule) ==
    IF cost < 0 THEN 0
    ELSE IF rule.markup_type = "fixed"
         THEN cost + (IF rule.hasValue THEN rule.markup_value ELSE 0)
    ELSE IF rule.markup_type = "matrix"
         THEN LET tiers == rule.matrix_rules
                  k == FindIndex([i \in 1..Len(tiers) |->
                           /\ cost >= (IF tiers[i].hasMin THEN tiers[i].min ELSE 0)
                           /\ (~tiers[i].hasMax \/ cost < tiers[i].max)])
                  pct == IF k # 0 /\ tiers[k].hasPct THEN tiers[k].pct
                         ELSE IF rule.hasValue THEN rule.markup_value
                         ELSE 40
              IN  RoundDiv(cost * (100 + pct), 100)
    ELSE RoundDiv(cost * (100 + (IF rule.hasValue /\ rule.markup_value # 0
                                 THEN rule.markup_value ELSE 40)), 100)

calculateListPrice(cost, rule) ==
    IF cost <= 0 THEN 0
    ELSE IF rule.markup_type = "fixed"
         THEN cost + (IF rule.hasValue THEN rule.markup_value ELSE 0)
    ELSE IF rule.markup_type = "matrix"
         THEN LET tiers == rule.matrix_rules
                  k == FindIndex([i \in 1..Len(tiers) |->
                           /\ cost >= (IF tiers[i].hasMin THEN tiers[i].min ELSE 0)
                           /\ (~tiers[i].hasMax \/ cost < tiers[i].max)])
                  pct == IF k # 0 /\ tiers[k].hasPct THEN tiers[k].pct
                         ELSE IF rule.hasValue THEN rule.markup_value
                         ELSE 40
              IN  RoundDiv(cost * (100 + pct), 100)
    ELSE RoundDiv(cost * (100 + (IF rule.hasValue /\ rule.markup_value # 0
                                 THEN rule.markup_value ELSE 40)), 100)

\* Faulty variant: the difference is reported whatever the cost and the list price.
calculateMarginAmount_NoGuard(cost, listPrice) == listPrice - cost

calculateMarginAmount(cost, listPrice) ==
    IF cost = 0 \/ listPrice = 0 THEN 0 ELSE listPrice - cost

\* in tenths of a percent
calculateMarginPercent(cost, listPrice) ==
    IF listPrice <= 0 THEN 0 ELSE RoundDiv(1000 * (listPrice - cost), listPrice)

\* { ...r, ...s }
Merge(r, s) == [f \in DOMAIN r \cup DOMAIN s |-> IF f \in DOMAIN s THEN s[f] ELSE r[f]]

\* category: "" when the caller passes undefined; a part without a partType
\* or price field has it undefined.  cost: safePart.cost || safePart.price || 0
enrichPartWithMargin(p, rules, category) ==
    LET cost == IF p.cost # 0 THEN p.cost
                ELSE IF "price" \in DOMAIN p /\ p.price # 0 THEN p.price
                ELSE 0
        rule == findMatchingRule(
                    [brand |-> p.brand,
                     category |-> IF category # "" THEN category
                                  ELSE IF "partType" \in DOMAIN p THEN p.partType ELSE ""],
                    rules)
        listPrice == calculateListPrice(cost, rule)
    IN  Merge(p, [cost |-> cost,
                  listPrice |-> listPrice,
                  margin |-> calculateMarginAmount(cost, listPrice),
                  marginPct |-> calculateMarginPercent(cost, listPrice),
                  appliedRule |-> [type |-> rule.rule_type, hasValue |-> rule.hasValue,
                                   value |-> rule.markup_value,
                                   markupType |-> rule.markup_type]])

NoPart == [brand |-> "", partType |-> "", cost |-> 0, price |-> 0]
NoRule == [rule_type |-> "none"]
NoPrice == [listPrice |-> -1]

\* ------------------------------------------------------------ smart filter
\* ds: a sequence of digit characters
RECURSIVE DecimalValue(_)
DecimalValue(ds) ==
    IF ds = << >> THEN 0
    ELSE 10 * DecimalValue(SubSeq(ds, 1, Len(ds) - 1)) + DigitValue(ds[Len(ds)])

\* \s* from position j: the first position that holds no space
AfterSpaces(t, j) ==
    CHOOSE k \in j..(Len(t) + 1) :
        /\ k = Len(t) + 1 \/ ~IsSpace(t[k])
        /\ \A m \in j..(k - 1) : IsSpace(t[m])

\* \d+ from position j: the number of digits in a row
DigitRun(t, j) ==
    CHOOSE n \in 0..(Len(t) + 1 - j) :
        /\ \A m \in j..(j + n - 1) : IsDigit(t[m])
        /\ j + n > Len(t) \/ ~IsDigit(t[j + n])

\* Faulty variant: the pattern has no optional dollar sign.
NumberStart_NoDollar(t, i, kw) == AfterSpaces(t, i + Len(kw))

\* \s*\$? after the keyword kw found at i: where the number has to start
NumberStart(t, i, kw) ==
    LET j == AfterSpaces(t, i + Len(kw))
    IN  IF j <= Len(t) /\ t[j] = "$" THEN j + 1 ELSE j

\* /(?:kw)\s*\$?(\d+(?:\.\d{1,2})?)/ matches at position i
PriceMatchesAt(t, i, kw) ==
    occursAt(t, kw, i) /\ DigitRun(t, NumberStart(t, i, kw)) > 0

\* parseFloat of the captured number, in cents
CapturedCents(t, p) ==
    LET n == DigitRun(t, p)
        whole == DecimalValue(SubSeq(t, p, p + n - 1))
        f == IF p + n <= Len(t) /\ t[p + n] = "." THEN DigitRun(t, p + n + 1) ELSE 0
    IN  IF f = 0 THEN whole * 100
        ELSE IF f = 1 THEN whole * 100 + 10 * DigitValue(t[p + n + 1])
        ELSE whole * 100 + DecimalValue(SubSeq(t, p + n + 1, p + n + 2))

\* lower.match(/(?:k1|k2|...)\s*\$?(\d+(?:\.\d{1,2})?)/): the leftmost match
matchPrice(t, keywords) ==
    LET at == { i \in 1..Len(t) :
                  \E k \in 1..Len(keywords) : PriceMatchesAt(t, i, Spell(keywords[k])) }
    IN  IF at = {} THEN [found |-> FALSE, cents |-> 0]
        ELSE LET i == SetMin(at)
                 k == SetMin({ k \in 1..Len(keywords) :
                                 PriceMatchesAt(t, i, Spell(keywords[k])) })
             IN  [found |-> TRUE,
                  cents |-> CapturedCents(t, NumberStart(t, i, Spell(keywords[k])))]

ExclusionWords == << "not ", "no ", "exclude ", "without ", "skip " >>

When(cond, value) == IF cond THEN << value >> ELSE << >>

SeqIncludes(seq, x) == \E i \in 1..Len(seq) : seq[i] = x

\* Faulty variant: a brand named in the text is included although it is excluded.
IncludedBrands_IgnoringExclusion(lower, availableBrands, excludedBrands) ==
    SelectSeq(availableBrands, LAMBDA brand : includes(lower, Lower(brand)))

\* Brand inclusion detection: the known brands the text names, the excluded ones left out
IncludedBrands(lower, availableBrands, excludedBrands) ==
    SelectSeq(availableBrands,
              LAMBDA brand : /\ includes(lower, Lower(brand))
                             /\ ~SeqIncludes(excludedBrands, brand))

\* hasPriceMax, hasPriceMin: the bound is not null
parseSmartFilter(text, availableBrands, availableVendors) ==
    LET lower == trim(Lower(text))
        has(w) == includes(lower, Spell(w))
        underMatch == matchPrice(lower, << "under", "below", "max", "less than",
                                           "cheaper than" >>)
        overMatch == matchPrice(lower, << "over", "above", "min", "more than",
                                          "at least" >>)
        excluded(brand) ==
            \E k \in 1..Len(ExclusionWords) :
                includes(lower, Spell(ExclusionWords[k]) \o Lower(brand))
        excludedBrands == SelectSeq(availableBrands, excluded)
        included == IncludedBrands(lower, availableBrands, excludedBrands)
        notExcluded(brand) == ~SeqIncludes(excludedBrands, brand)
        vendorNamed(vendor) == includes(lower, Lower(vendor))
    IN  [ materials |-> When(has("ceramic"), "Ceramic")
                        \o When(has("semi-metallic") \/ has("semi metallic")
                                \/ has("semimetallic"), "Semi-Metallic")
                        \o When(has("organic"), "Organic"),
          hasPriceMax |-> underMatch.found,
          priceMax |-> underMatch.cents,
          hasPriceMin |-> overMatch.found,
          priceMin |-> overMatch.cents,
          inStockOnly |-> has("in stock") \/ has("available now")
                          \/ has("available today") \/ has("same day"),
          tiers |-> When(has("premium") \/ has("best"), "best")
                    \o When(has("quality") \/ has("mid-range") \/ has("better"), "better")
                    \o When(has("economy") \/ has("budget") \/ has("cheap"), "good"),
          excludedBrands |-> excludedBrands,
          brands |-> IF Len(excludedBrands) > 0 /\ Len(included) = 0
                     THEN SelectSeq(availableBrands, notExcluded)
                     ELSE included,
          vendors |-> SelectSeq(availableVendors, vendorNamed) ]

\* What a service writer may type into the smart filter.
SmartTexts ==
    { "ceramic under $30 not Duralast in stock", "not duralast no bosch",
      "under $1500", "Bosch over 10", "  " }

\* --------------------------------------------------- filter and sort pipeline
\* 999 dollars
DEFAULT_FILTERS ==
    [brands |-> << >>, vendors |-> << >>, materials |-> << >>, tiers |-> << >>,
     priceMin |-> 0, priceMax |-> 99900, inStockOnly |-> FALSE]

\* [...new Set(names)].sort(): the names in code unit order
SortedUnique(names) ==
    SelectSeq(<< "Akebono", "Amazon", "Bosch", "Ceramic", "Duralast", "Unknown", "eBay" >>,
              LAMBDA n : n \in names)

currentUrl == req[nreq].url

enrichedResults ==
    [i \in 1..Len(rawResults) |-> enrichPartWithMargin(rawResults[i], marginRules, "")]

BrandsOf(results) == { results[i].brand : i \in 1..Len(results) }
VendorsOf(results) == { results[i].vendor : i \in 1..Len(results) }
MaterialsOf(results) == { results[i].material : i \in 1..Len(results) } \ {NULL}

availableBrands == SortedUnique(BrandsOf(enrichedResults))
availableVendors == SortedUnique(VendorsOf(enrichedResults))

\* Faulty variant: the price cap is applied whatever its value.
Passes_CapAlways(p, f) ==
    /\ ~(Len(f.brands) > 0 /\ ~SeqIncludes(f.brands, p.brand))
    /\ ~(Len(f.vendors) > 0 /\ ~SeqIncludes(f.vendors, p.vendor))
    /\ ~(Len(f.materials) > 0 /\ ~SeqIncludes(f.materials, p.material))
    /\ ~(Len(f.tiers) > 0 /\ ~SeqIncludes(f.tiers, p.tier))
    /\ ~(f.priceMin > 0 /\ p.cost < f.priceMin)
    /\ ~(p.cost > f.priceMax)
    /\ ~(f.inStockOnly /\ p.deliveryHours > 24)

Passes(p, f) ==
    /\ ~(Len(f.brands) > 0 /\ ~SeqIncludes(f.brands, p.brand))
    /\ ~(Len(f.vendors) > 0 /\ ~SeqIncludes(f.vendors, p.vendor))
    /\ ~(Len(f.materials) > 0 /\ ~SeqIncludes(f.materials, p.material))
    /\ ~(Len(f.tiers) > 0 /\ ~SeqIncludes(f.tiers, p.tier))
    /\ ~(f.priceMin > 0 /\ p.cost < f.priceMin)
    /\ ~(f.priceMax < 99900 /\ p.cost > f.priceMax)
    /\ ~(f.inStockOnly /\ p.deliveryHours > 24)

filteredResults == SelectSeq(enrichedResults, LAMBDA p : Passes(p, filters))

sorter(a, b) ==
    IF sortBy = "best_margin" THEN b.margin - a.margin
    ELSE IF sortBy = "lowest_cost" THEN a.cost - b.cost
    ELSE IF sortBy = "fastest_delivery" THEN a.deliveryHours - b.deliveryHours
    ELSE IF sortBy = "marcus_pick" THEN b.marcusScore - a.marcusScore
    ELSE 0

\* for (const group of partGroups) grouped.push(...items of the group, sorted)
\* items.sort(sorter)
Sorted(items) ==
    SortBy(items, [i, j \in 1..Len(items) |-> sorter(items[i], items[j])])

\* Faulty variant: the filtered results are sorted as one list.
Grouped_AsOneList(results, groups, k) == Sorted(results)

RECURSIVE Grouped(_, _, _)
Grouped(results, groups, k) ==
    IF k > Len(groups) THEN << >>
    ELSE Sorted(SelectSeq(results, LAMBDA p : p.groupLabel = groups[k].label))
         \o Grouped(results, groups, k + 1)

GroupedMode ==
    (IsMultiPart(currentUrl) \/ IsMarcusSearch(currentUrl)) /\ Len(partGroups) > 0

sortedResults ==
    IF GroupedMode THEN Grouped(filteredResults, partGroups, 1)
    ELSE Sorted(filteredResults)

\* marcusPickId: no id (null) or the id of the first sorted result
marcusPickId ==
    IF sortBy = "marcus_pick" /\ Len(sortedResults) > 0 THEN {sortedResults[1].id} ELSE {}

\* ResultRow's isMarcusPick={part.id === marcusPickId}
isMarcusPick(p) == p.id \in marcusPickId

handleSmartFilterApply(parsed) ==
    [ brands |-> IF Len(parsed.brands) > 0 THEN parsed.brands ELSE DEFAULT_FILTERS.brands,
      vendors |-> IF Len(parsed.vendors) > 0 THEN parsed.vendors ELSE DEFAULT_FILTERS.vendors,
      materials |-> IF Len(parsed.materials) > 0 THEN parsed.materials
                    ELSE DEFAULT_FILTERS.materials,
      tiers |-> IF Len(parsed.tiers) > 0 THEN parsed.tiers ELSE DEFAULT_FILTERS.tiers,
      priceMax |-> IF parsed.hasPriceMax THEN parsed.priceMax ELSE DEFAULT_FILTERS.priceMax,
      priceMin |-> IF parsed.hasPriceMin THEN parsed.priceMin ELSE DEFAULT_FILTERS.priceMin,
      inStockOnly |-> parsed.inStockOnly ]

\* toggleArrayFilter's updated array
Toggled(current, value) ==
    IF SeqIncludes(current, value) THEN SelectSeq(current, LAMBDA v : v # value)
    ELSE Append(current, value)

\* ------------------------------------------------------------------ Init
\* No answer is being normalized on its own.
NothingNormalized ==
    /\ upstream = << >>
    /\ normalized = << >>

\* The smart filter's parser is not being called on its own.
NothingParsed ==
    /\ smartInput = [text |-> "", availableBrands |-> << >>, availableVendors |-> << >>]
    /\ parseResult = [done |-> FALSE]

Init ==
    /\ mounted = TRUE
    /\ nreq = 0
    /\ req = [r \in 1..MaxReq |-> NoRequest]
    /\ shopExcluded \in {{}, {"Duralast"}}
    /\ rawResults = <<>>
    /\ partGroups = <<>>
    /\ loading = TRUE
    /\ error = NULL
    /\ issued = 0
    /\ session \in {NULL, "token"}
    /\ history = << >>
    /\ marginRules = ShopRules
    /\ part = NoPart
    /\ matched = NoRule
    /\ priced = NoPrice
    /\ filters = DEFAULT_FILTERS
    /\ sortBy = "best_margin"
    /\ smartFilterActive = FALSE
    /\ smartFilterText = ""
    /\ selectedIds = {}
    /\ orders = << >>
    /\ edits = 0
    /\ NothingNormalized
    /\ NothingParsed

\* --------------------------------------------------------------- actions
\* The effect runs on mount and whenever a dependency changes: the previous
\* run's cleanup first, then the new run up to its first await.
RunEffect(url) ==
    /\ mounted
    /\ nreq < MaxReq
    /\ nreq > 0 => Deps(url) # Deps(req[nreq].url)
    /\ Quiescent
    /\ issued + Len(StartFetch(url).tasks) <= MaxCalls
    /\ issued' = issued + (IF Query(url) = "" /\ ~IsMultiPart(url) THEN 0
                           ELSE Len(StartFetch(url).tasks))
    /\ LET cleaned == IF nreq > 0 THEN [req EXCEPT ![nreq] = Cleanup(@)] ELSE req
       IN  IF Query(url) = "" /\ ~IsMultiPart(url)
           THEN /\ req' = [cleaned EXCEPT ![nreq + 1] =
                             [NoRequest EXCEPT !.url = url, !.pc = "skipped"]]
                /\ loading' = FALSE
                /\ UNCHANGED error
           ELSE /\ req' = [cleaned EXCEPT ![nreq + 1] = StartFetch(url)]
                /\ loading' = TRUE
                /\ error' = NULL
    /\ nreq' = nreq + 1
    /\ UNCHANGED <<mounted, shopExcluded, rawResults, partGroups, session, history>>
    /\ sortBy' = IF nreq > 0 THEN sortBy
                 ELSE IF IsMarcusSearch(url) THEN "marcus_pick" ELSE "best_margin"
    /\ UNCHANGED <<marginRules, calcVars, filters, smartFilterActive, smartFilterText,
                   selectedIds, orders, edits, normVars, parseVars>>

\* The page is left: the current run's cleanup.
Unmount ==
    /\ mounted
    /\ nreq > 0
    /\ Quiescent
    /\ mounted' = FALSE
    /\ req' = [req EXCEPT ![nreq] = Cleanup(@)]
    /\ UNCHANGED <<nreq, shopExcluded, rawResults, partGroups, loading, error, issued,
                 session, history>>
    /\ UNCHANGED <<marginRules, calcVars, viewVars, normVars, parseVars>>

\* One search call answers: its task fulfils with the normalized hits.
RespondOk(r, i, resp) ==
    /\ req[r].pc = "awaiting"
    /\ req[r].branch \in {"multi", "marcus"}
    /\ i \in 1..Len(req[r].tasks)
    /\ req[r].tasks[i].st = "pending"
    /\ Quiescent
    /\ req' = [req EXCEPT ![r].tasks[i] = Fulfilled(MapResults(resp, req[r].pairs[i].label))]
    /\ UNCHANGED <<mounted, nreq, shopExcluded, rawResults, partGroups, loading, error,
                 issued, session, history>>
    /\ UNCHANGED <<marginRules, calcVars, viewVars, normVars, parseVars>>

\* One search call fails (network error, non-success status): its task rejects.
RespondFail(r, i, kind) ==
    /\ req[r].pc = "awaiting"
    /\ req[r].branch \in {"multi", "marcus"}
    /\ i \in 1..Len(req[r].tasks)
    /\ req[r].tasks[i].st = "pending"
    /\ Quiescent
    /\ req' = [req EXCEPT ![r].tasks[i] = Rejected(kind)]
    /\ UNCHANGED <<mounted, nreq, shopExcluded, rawResults, partGroups, loading, error,
                 issued, session, history>>
    /\ UNCHANGED <<marginRules, calcVars, viewVars, normVars, parseVars>>

\* The continuation of the fan-out (multi-part branch, or Marcus after the
\* diagnosis): merge, store groups and results, post to the search history,
\* clear the loading flag.  A state setter of an unmounted component does nothing.
SettleFanOut(r) ==
    /\ req[r].pc = "awaiting"
    /\ req[r].branch \in {"multi", "marcus"}
    /\ FanOutReady(req[r].tasks)
    /\ req' = [req EXCEPT ![r] = Finished(@, "done")]
    /\ IF mounted
       THEN /\ partGroups' = Groups(req[r].pairs, req[r].tasks)
            /\ rawResults' = RemoveExcluded(AllMapped(req[r].tasks, Len(req[r].tasks)),
                                            shopExcluded)
            /\ loading' = FALSE
       ELSE UNCHANGED <<partGroups, rawResults, loading>>
    /\ UNCHANGED <<mounted, nreq, shopExcluded, error, issued, session>>
    /\ history' = history \o
           searchesToLog(req[r], RemoveExcluded(AllMapped(req[r].tasks, Len(req[r].tasks)),
                                                shopExcluded))
    /\ UNCHANGED <<marginRules, calcVars, viewVars, normVars, parseVars>>

\* Faulty variant: the single-part hits are tagged like a one-query multi-part request's.
SingleResults_Labelled(resp) == MapResults(resp, "pads")

\* allMapped = results.map((raw, i) => mapApiResult(raw, i, null))
SingleResults(resp) == MapResults(resp, NULL)

\* Single-part branch: the search call answers, the hits are stored and the
\* search is posted to the search history.
SingleOk(r, resp) ==
    /\ req[r].pc = "awaiting"
    /\ req[r].branch = "single"
    /\ req[r].tasks[1].st = "pending"
    /\ Quiescent
    /\ req' = [req EXCEPT ![r] = Finished(@, "done")]
    /\ IF mounted
       THEN /\ partGroups' = <<>>
            /\ rawResults' = RemoveExcluded(SingleResults(resp), shopExcluded)
            /\ loading' = FALSE
       ELSE UNCHANGED <<partGroups, rawResults, loading>>
    /\ UNCHANGED <<mounted, nreq, shopExcluded, error, issued, session>>
    /\ history' = history \o
           searchesToLog(req[r], RemoveExcluded(SingleResults(resp), shopExcluded))
    /\ UNCHANGED <<marginRules, calcVars, viewVars, normVars, parseVars>>

\* Single-part branch: the search call fails; the catch block stores the error.
SingleFail(r, kind) ==
    /\ req[r].pc = "awaiting"
    /\ req[r].branch = "single"
    /\ req[r].tasks[1].st = "pending"
    /\ Quiescent
    /\ req' = [req EXCEPT ![r] = Finished(@, "error")]
    /\ IF mounted
       THEN /\ error' = kind
            /\ rawResults' = <<>>
            /\ loading' = FALSE
       ELSE UNCHANGED <<error, rawResults, loading>>
    /\ UNCHANGED <<mounted, nreq, shopExcluded, partGroups, issued, session, history>>
    /\ UNCHANGED <<marginRules, calcVars, viewVars, normVars, parseVars>>

\* Single-part branch, call aborted: the catch block skips an AbortError,
\* the finally block still clears the loading flag.
SingleAborted(r) ==
    /\ req[r].pc = "awaiting"
    /\ req[r].branch = "single"
    /\ req[r].tasks[1] = Rejected("AbortError")
    /\ req' = [req EXCEPT ![r] = Finished(@, "aborted")]
    /\ loading' = IF mounted THEN FALSE ELSE loading
    /\ UNCHANGED <<mounted, nreq, shopExcluded, rawResults, partGroups, error, issued,
                 session, history>>
    /\ UNCHANGED <<marginRules, calcVars, viewVars, normVars, parseVars>>

\* Marcus branch: the diagnosis call fails (network error, non-success status).
DiagFail(r, kind) ==
    /\ req[r].pc = "diagnosing"
    /\ req[r].diag = "pending"
    /\ Quiescent
    /\ req' = [req EXCEPT ![r] = Finished(@, "error")]
    /\ IF mounted
       THEN /\ error' = kind
            /\ rawResults' = <<>>
            /\ loading' = FALSE
       ELSE UNCHANGED <<error, rawResults, loading>>
    /\ UNCHANGED <<mounted, nreq, shopExcluded, partGroups, issued, session, history>>
    /\ UNCHANGED <<marginRules, calcVars, viewVars, normVars, parseVars>>

\* Marcus branch: the diagnosis did not produce parts; early return.
DiagNoParts(r) ==
    /\ req[r].pc = "diagnosing"
    /\ req[r].diag = "pending"
    /\ Quiescent
    /\ req' = [req EXCEPT ![r] = Finished(@, "noparts")]
    /\ IF mounted
       THEN /\ rawResults' = <<>>
            /\ loading' = FALSE
       ELSE UNCHANGED <<rawResults, loading>>
    /\ UNCHANGED <<mounted, nreq, shopExcluded, partGroups, error, issued, session, history>>
    /\ UNCHANGED <<marginRules, calcVars, viewVars, normVars, parseVars>>

\* Marcus branch: the diagnosis names parts; one search call per part is issued.
DiagParts(r, d) ==
    /\ req[r].pc = "diagnosing"
    /\ req[r].diag = "pending"
    /\ Quiescent
    /\ issued + Len(d.parts) <= MaxCalls
    /\ issued' = issued + Len(d.parts)
    /\ req' = [req EXCEPT ![r].pc = "awaiting", ![r].diag = "parts",
                          ![r].pairs = searchPairs(d.parts, d.labels),
                          ![r].tasks = [i \in 1..Len(d.parts) |-> Pending]]
    /\ UNCHANGED <<mounted, nreq, shopExcluded, rawResults, partGroups, loading, error,
                 session, history>>
    /\ UNCHANGED <<marginRules, calcVars, viewVars, normVars, parseVars>>

\* Marcus branch, diagnosis call aborted: only the finally block acts.
DiagAborted(r) ==
    /\ req[r].pc = "diagnosing"
    /\ req[r].diag = "aborted"
    /\ req' = [req EXCEPT ![r] = Finished(@, "aborted")]
    /\ loading' = IF mounted THEN FALSE ELSE loading
    /\ UNCHANGED <<mounted, nreq, shopExcluded, rawResults, partGroups, error, issued,
                 session, history>>
    /\ UNCHANGED <<marginRules, calcVars, viewVars, normVars, parseVars>>

Reqs == 1..MaxReq

Next ==
    \/ \E url \in Urls : RunEffect(url)
    \/ Unmount
    \/ \E r \in Reqs, i \in 1..MaxQueries, resp \in Responses : RespondOk(r, i, resp)
    \/ \E r \in Reqs, i \in 1..MaxQueries, kind \in FailureKinds : RespondFail(r, i, kind)
    \/ \E r \in Reqs : SettleFanOut(r)
    \/ \E r \in Reqs, resp \in Responses : SingleOk(r, resp)
    \/ \E r \in Reqs, kind \in FailureKinds : SingleFail(r, kind)
    \/ \E r \in Reqs : SingleAborted(r)
    \/ \E r \in Reqs, kind \in FailureKinds : DiagFail(r, kind)
    \/ \E r \in Reqs : DiagNoParts(r)
    \/ \E r \in Reqs, d \in Diagnoses : DiagParts(r, d)
    \/ \E r \in Reqs : DiagAborted(r)

Spec == Init /\ [][Next]_vars

\* A promise continuation that is ready does run.  Nothing makes the provider
\* answer: a call may stay in flight for ever.
FairSpec ==
    Spec /\ \A r \in Reqs :
                /\ WF_vars(SettleFanOut(r))
                /\ WF_vars(SingleAborted(r))
                /\ WF_vars(DiagAborted(r))


\* ======================================================================
\* The margin calculator on its own: any part, any rule list
\* ======================================================================
PageNotLoaded ==
    /\ mounted = TRUE
    /\ nreq = 0
    /\ req = [r \in 1..MaxReq |-> NoRequest]
    /\ shopExcluded = {}
    /\ rawResults = <<>>
    /\ partGroups = <<>>
    /\ loading = TRUE
    /\ error = NULL
    /\ issued = 0
    /\ session = NULL
    /\ history = << >>

ViewUntouched ==
    /\ filters = DEFAULT_FILTERS
    /\ smartFilterActive = FALSE
    /\ smartFilterText = ""
    /\ selectedIds = {}
    /\ orders = << >>
    /\ edits = 0

MarginInit ==
    /\ PageNotLoaded
    /\ ViewUntouched
    /\ sortBy = "best_margin"
    /\ marginRules \in RuleLists
    /\ part \in Parts
    /\ matched = NoRule
    /\ priced = NoPrice
    /\ NothingNormalized
    /\ NothingParsed

\* findMatchingRule({ brand, category }, rules)
Resolve ==
    /\ matched = NoRule
    /\ matched' = findMatchingRule([brand |-> part.brand, category |-> part.partType],
                                   marginRules)
    /\ UNCHANGED <<normVars, parseVars, pageVars, marginRules, part, priced, viewVars>>

\* enrichPartWithMargin(part, marginRules, part.partType)
Enrich ==
    /\ priced = NoPrice
    /\ priced' = enrichPartWithMargin(part, marginRules, part.partType)
    /\ UNCHANGED <<normVars, parseVars, pageVars, marginRules, part, matched, viewVars>>

MarginNext ==
    \/ Resolve
    \/ Enrich

MarginSpec == MarginInit /\ [][MarginNext]_vars

\* ======================================================================
\* The loaded results page: filters, smart filter, sort tabs
\* ======================================================================
\* The hits the provider has for a part of a fan-out: MaxHits of the catalog,
\* from the second on for pads and from the third on (going round) for any
\* other query.
HitsFor(query) ==
    IF query = "pads" THEN SubSeq(Catalog \o Catalog, 2, MaxHits + 1)
    ELSE SubSeq(Catalog \o Catalog, 3, MaxHits + 2)

\* The settled tasks of a fan-out: each call delivered hits or failed.
Answers(pairs) ==
    { [i \in 1..Len(pairs) |->
          IF ok[i] THEN Fulfilled(MapResults(HitsFor(pairs[i].query), pairs[i].label))
          ELSE Rejected("Search failed")]
      : ok \in [1..Len(pairs) -> BOOLEAN] }

\* What fetchResults stored when a fan-out over pairs settled with tasks.
FanOutPage(request, pairs, tasks) ==
    [request |-> request, groups |-> Groups(pairs, tasks),
     results |-> AllMapped(tasks, Len(tasks)), calls |-> Len(tasks)]

\* The pages a completed request leaves: a multi-part request of up to
\* MaxViewQueries parts, a Marcus request diagnosed to pads and rotors, a
\* single-part request.
LoadedPages ==
    LET NoUrl == NoRequest.url
        MultiUrl(ps) == [NoUrl EXCEPT !.hasParts = TRUE, !.partQueries = ps]
        MarcusUrl == [NoUrl EXCEPT !.marcus = "grinding noise"]
        SingleUrl == [NoUrl EXCEPT !.q = "pads"]
        ViewPartLists ==
            { ps \in SeqsUpTo(Queries, MaxViewQueries) : ps # <<>> /\ ps[1] = "pads" }
    IN  UNION { { FanOutPage(StartFetch(MultiUrl(ps)), searchPairs(ps, <<>>), tasks)
                  : tasks \in Answers(searchPairs(ps, <<>>)) } : ps \in ViewPartLists }
        \cup { FanOutPage(StartFetch(MarcusUrl), searchPairs(<<"pads", "rotors">>, <<>>), tasks)
               : tasks \in Answers(searchPairs(<<"pads", "rotors">>, <<>>)) }
        \cup { [request |-> StartFetch(SingleUrl), groups |-> <<>>,
                results |-> SingleResults(resp), calls |-> 1]
               : resp \in Responses \cup {HitsFor("pads")} }

\* The page after its request has completed.
ViewInit ==
    /\ mounted = TRUE
    /\ nreq = 1
    /\ loading = FALSE
    /\ error = NULL
    /\ shopExcluded \in {{}, {"Duralast"}}
    /\ session = "token"
    /\ marginRules = ShopRules
    /\ part = NoPart
    /\ matched = NoRule
    /\ priced = NoPrice
    /\ ViewUntouched
    /\ NothingNormalized
    /\ NothingParsed
    /\ \E page \in LoadedPages :
        /\ req = [r \in 1..MaxReq |->
                    IF r = 1 THEN Finished(page.request, "done") ELSE NoRequest]
        /\ partGroups = page.groups
        /\ rawResults = RemoveExcluded(page.results, shopExcluded)
        /\ issued = page.calls
        /\ history = searchesToLog(page.request, rawResults)
        /\ sortBy = IF IsMarcusSearch(page.request.url) THEN "marcus_pick"
                    ELSE "best_margin"

CanEdit == mounted /\ ~loading /\ nreq > 0 /\ edits < MaxEdits

\* The checkboxes the sidebar shows for a facet.
Offered(key) ==
    IF key = "brands" THEN BrandsOf(enrichedResults)
    ELSE IF key = "vendors" THEN VendorsOf(enrichedResults)
    ELSE IF key = "materials"
         THEN IF Cardinality(MaterialsOf(enrichedResults)) > 1
              THEN MaterialsOf(enrichedResults)
              ELSE {}
    ELSE {"best", "better", "good"}

\* toggleArrayFilter(key, value)
ToggleFilter(key, value) ==
    /\ CanEdit
    /\ filters' = [filters EXCEPT ![key] = Toggled(@, value)]
    /\ edits' = edits + 1
    /\ UNCHANGED <<normVars, parseVars, pageVars, marginRules, calcVars, selectedIds, orders,
                   sortBy, smartFilterActive, smartFilterText>>

\* The "In Stock only" checkbox
ToggleInStock ==
    /\ CanEdit
    /\ filters' = [filters EXCEPT !.inStockOnly = ~@]
    /\ edits' = edits + 1
    /\ UNCHANGED <<normVars, parseVars, pageVars, marginRules, calcVars, selectedIds, orders,
                   sortBy, smartFilterActive, smartFilterText>>

\* What may be typed into a price input, in cents (0: the input is emptied).
PriceInputs == {0, 3000, 150000}

\* priceMin: Number(e.target.value) || 0
SetPriceMin(v) ==
    /\ CanEdit
    /\ filters' = [filters EXCEPT !.priceMin = IF v # 0 THEN v ELSE 0]
    /\ edits' = edits + 1
    /\ UNCHANGED <<normVars, parseVars, pageVars, marginRules, calcVars, selectedIds, orders,
                   sortBy, smartFilterActive, smartFilterText>>

\* priceMax: Number(e.target.value) || 999
SetPriceMax(v) ==
    /\ CanEdit
    /\ filters' = [filters EXCEPT !.priceMax = IF v # 0 THEN v ELSE 99900]
    /\ edits' = edits + 1
    /\ UNCHANGED <<normVars, parseVars, pageVars, marginRules, calcVars, selectedIds, orders,
                   sortBy, smartFilterActive, smartFilterText>>

activeFilterCount ==
    Len(filters.brands) + Len(filters.vendors) + Len(filters.materials) + Len(filters.tiers)
    + (IF filters.inStockOnly THEN 1 ELSE 0)
    + (IF filters.priceMax < 99900 THEN 1 ELSE 0)
    + (IF filters.priceMin > 0 THEN 1 ELSE 0)

\* The sidebar's "Clear all filters"
clearAllFilters ==
    /\ CanEdit
    /\ activeFilterCount > 0
    /\ ~smartFilterActive
    /\ filters' = DEFAULT_FILTERS
    /\ edits' = edits + 1
    /\ UNCHANGED <<normVars, parseVars, pageVars, marginRules, calcVars, selectedIds, orders,
                   sortBy, smartFilterActive, smartFilterText>>

\* SmartFilter's handleSubmit: parse the text, then handleSmartFilterApply
SmartFilterSubmit(text) ==
    /\ CanEdit
    /\ ~smartFilterActive
    /\ trim(Spell(text)) # << >>
    /\ filters' = handleSmartFilterApply(
                      parseSmartFilter(text, availableBrands, availableVendors))
    /\ smartFilterActive' = TRUE
    /\ smartFilterText' = text
    /\ edits' = edits + 1
    /\ UNCHANGED <<normVars, parseVars, pageVars, marginRules, calcVars, selectedIds, orders,
                   sortBy>>

handleSmartFilterClear ==
    /\ CanEdit
    /\ smartFilterActive
    /\ filters' = DEFAULT_FILTERS
    /\ smartFilterActive' = FALSE
    /\ smartFilterText' = ""
    /\ edits' = edits + 1
    /\ UNCHANGED <<normVars, parseVars, pageVars, marginRules, calcVars, selectedIds, orders,
                   sortBy>>

\* The empty list's "Clear all filters": setFilters(DEFAULT_FILTERS); handleSmartFilterClear()
ClearFromEmptyList ==
    /\ CanEdit
    /\ Len(sortedResults) = 0
    /\ Len(enrichedResults) > 0
    /\ filters' = DEFAULT_FILTERS
    /\ smartFilterActive' = FALSE
    /\ smartFilterText' = ""
    /\ edits' = edits + 1
    /\ UNCHANGED <<normVars, parseVars, pageVars, marginRules, calcVars, selectedIds, orders,
                   sortBy>>

\* SortTabs: onSortChange
setSortBy(key) ==
    /\ CanEdit
    /\ key # sortBy
    /\ sortBy' = key
    /\ edits' = edits + 1
    /\ UNCHANGED <<normVars, parseVars, pageVars, marginRules, calcVars, selectedIds, orders,
                   filters, smartFilterActive, smartFilterText>>

\* The ids of the rows the list shows
DisplayedIds == { sortedResults[i].id : i \in 1..Len(sortedResults) }

\* A row's checkbox: toggleSelect(part.id)
toggleSelect(id) ==
    /\ CanEdit
    /\ selectedIds' = IF id \in selectedIds THEN selectedIds \ {id}
                      ELSE selectedIds \cup {id}
    /\ edits' = edits + 1
    /\ UNCHANGED <<normVars, parseVars, pageVars, marginRules, calcVars, filters, sortBy,
                   smartFilterActive, smartFilterText, orders>>

\* handleAddToOrder(part): the order posted for a part; without a session
\* token nothing is posted
OrderOf(p) ==
    [brand |-> p.brand, vendor |-> p.vendor, cost |-> p.cost, list_price |-> p.listPrice]

\* The "Add N to Order" button, shown when selectedIds.size > 0: handleBulkAddToOrder
handleBulkAddToOrder ==
    /\ mounted /\ ~loading /\ nreq > 0
    /\ Cardinality(selectedIds) > 0
    /\ LET selected == SelectSeq(sortedResults, LAMBDA p : p.id \in selectedIds)
       IN  orders' = IF session = NULL THEN orders
                     ELSE orders \o [i \in 1..Len(selected) |-> OrderOf(selected[i])]
    /\ selectedIds' = {}
    /\ UNCHANGED <<normVars, parseVars, pageVars, marginRules, calcVars, filters, sortBy,
                   smartFilterActive, smartFilterText, edits>>

ViewNext ==
    \/ \E key \in {"brands", "vendors", "materials", "tiers"} :
           \E value \in Offered(key) : ToggleFilter(key, value)
    \/ ToggleInStock
    \/ \E v \in PriceInputs : SetPriceMin(v)
    \/ \E v \in PriceInputs : SetPriceMax(v)
    \/ clearAllFilters
    \/ \E text \in SmartTexts : SmartFilterSubmit(text)
    \/ handleSmartFilterClear
    \/ ClearFromEmptyList
    \/ \E key \in {"best_margin", "lowest_cost", "fastest_delivery", "marcus_pick"} :
           setSortBy(key)
    \/ \E id \in (IF CanEdit THEN DisplayedIds ELSE {}) : toggleSelect(id)
    \/ handleBulkAddToOrder

ViewSpec == ViewInit /\ [][ViewNext]_vars

\* ======================================================================
\* The normalizer on its own: any hits, in either upstream shape
\* ======================================================================
\* The hits the provider may deliver: the raw unified and the consolidated
\* shape (bestPrice and sources) with every quality label, the catalog's,
\* faulty ones (a null entry, an empty object, a consolidated hit without
\* sources, fields of the wrong type), and hits whose estimated days are
\* negative, zero or several.
UpstreamHits ==
    LET QualityLabels == {"premium", "oem", "best", "economy", "good", "better", ""}
        RawHit(label) == [Catalog[1] EXCEPT !.qualityTier = label]
        ConsolidatedHit(label) ==
            [EmptyHit EXCEPT
                !.title = "Bosch Ceramic Brake Pads", !.bestPrice = 2000,
                !.hasSources = TRUE,
                !.sources = << [EmptySource EXCEPT !.source = "ebay", !.price = 1900],
                               [EmptySource EXCEPT !.status = "active", !.source = "amazon",
                                                   !.price = 2100, !.hasDays = TRUE,
                                                   !.shippingDays = 2] >>,
                !.qualityTier = label]
    IN  { RawHit(l) : l \in QualityLabels }
        \cup { ConsolidatedHit(l) : l \in QualityLabels }
        \cup { Catalog[2], Catalog[3] }
        \cup { [EmptyHit EXCEPT !.isObject = FALSE],
               EmptyHit,
               [EmptyHit EXCEPT !.hasSources = TRUE],
               [ConsolidatedHit("premium") EXCEPT !.wrong = {"sources"}],
               [ConsolidatedHit("premium") EXCEPT !.wrong = {"source"}] }
        \cup { [RawHit("premium") EXCEPT !.wrong = {f}]
                 : f \in {"title", "brand", "source", "qualityTier"} }
        \cup { [RawHit("premium") EXCEPT !.shippingDays = d] : d \in {-1, 0, 3} }
        \cup { [ConsolidatedHit("premium") EXCEPT !.sources[2].shippingDays = 0] }

\* The labels of the two search calls of a multi-part request
CallLabels == << "pads", "rotors" >>

\* Two search calls have been answered: the first with up to MaxBatch hits
\* of any kind, the second with hits of the catalog.
NormalizeInit ==
    /\ PageNotLoaded
    /\ ViewUntouched
    /\ sortBy = "best_margin"
    /\ marginRules = ShopRules
    /\ part = NoPart
    /\ matched = NoRule
    /\ priced = NoPrice
    /\ upstream \in { <<first, second>> :
                        first \in UNION { [1..k -> UpstreamHits] : k \in 1..MaxBatch },
                        second \in Responses }
    /\ normalized = [i \in DOMAIN CallLabels |->
                        [done |-> FALSE, threw |-> FALSE, results |-> << >>]]
    /\ NothingParsed

\* fetchSinglePart after response.json(): results.map(mapApiResult)
NormalizeCall(i) ==
    /\ ~normalized[i].done
    /\ normalized' = [normalized EXCEPT ![i] = MapHits(upstream[i], CallLabels[i])]
    /\ UNCHANGED <<pageVars, marginRules, calcVars, viewVars, upstream, parseVars>>

NormalizeNext == \E i \in DOMAIN CallLabels : NormalizeCall(i)

NormalizeSpec == NormalizeInit /\ [][NormalizeNext]_vars

\* ======================================================================
\* The smart filter's parser on its own: any text, any known brands
\* ======================================================================
\* The brand lists the parser may be handed: up to MaxBrands known brands,
\* in any order, a brand twice included.
KnownBrandLists == SeqsUpTo({"Duralast", "Akebono", "Bosch"}, MaxBrands)

\* A service writer has typed a text; the results on the page decide the
\* brands and vendors the parser is handed.
ParseInit ==
    /\ PageNotLoaded
    /\ ViewUntouched
    /\ sortBy = "best_margin"
    /\ marginRules = ShopRules
    /\ part = NoPart
    /\ matched = NoRule
    /\ priced = NoPrice
    /\ NothingNormalized
    /\ smartInput \in
          [text : SmartTexts \cup {"akebono not duralast", "no bosch",
                                   "bosch on ebay over $5.5"},
           availableBrands : KnownBrandLists,
           availableVendors : {<< >>, << "Amazon", "eBay" >>}]
    /\ parseResult = [done |-> FALSE]

\* handleSubmit: onApply(parseSmartFilter(inputText, availableBrands, availableVendors), inputText)
ParseCall ==
    /\ ~parseResult.done
    /\ parseResult' = [done |-> TRUE,
                  out |-> parseSmartFilter(smartInput.text, smartInput.availableBrands,
                                           smartInput.availableVendors)]
    /\ UNCHANGED <<pageVars, marginRules, calcVars, viewVars, normVars, smartInput>>

ParseNext == ParseCall

ParseSpec == ParseInit /\ [][ParseNext]_vars

\* ======================================================================
\* Claims about the request effect (fan-out, merge, cancellation)
\* ======================================================================
FanOut == {"multi", "marcus"}

\* The hits of the fulfilled tasks, first query first.
RECURSIVE HitsOfFulfilled(_)
HitsOfFulfilled(tasks) ==
    IF tasks = <<>> THEN <<>>
    ELSE (IF Head(tasks).st = "fulfilled" THEN Head(tasks).value ELSE <<>>)
         \o HitsOfFulfilled(Tail(tasks))

\* r's fetchResults returns in this step.
Finishes(r) == req[r].pc \in {"awaiting", "diagnosing"} /\ req'[r].pc \in FinalPcs

C7_MergeOnceAfterAllSettled ==
    [][/\ (rawResults' # rawResults \/ partGroups' # partGroups) =>
            \E r \in Reqs :
                /\ Finishes(r)
                /\ (req[r].branch \in FanOut /\ req[r].pc = "awaiting") =>
                      \A i \in 1..Len(req[r].tasks) : req[r].tasks[i].st # "pending"
       /\ \A r \in Reqs : req[r].pc \in FinalPcs => req'[r].pc = req[r].pc]_vars

\* A two-query request has merged after one of its tasks failed and the other
\* one delivered.
C7_Witness ==
    /\ nreq = 1 /\ req[1].pc = "done" /\ req[1].branch = "multi"
    /\ Len(partGroups) = 2
    /\ partGroups[1].count > 0
    /\ partGroups[2].error \in FailureKinds

\* C8: when all queries of a fan-out request but one have settled, the request
\* eventually completes (the slow query ending as an error entry of its group).
C8_SlowQueryDoesNotBlock ==
    \A r \in Reqs :
        (/\ mounted /\ req[r].pc = "awaiting" /\ req[r].branch \in FanOut
         /\ Cardinality({i \in 1..Len(req[r].tasks) : req[r].tasks[i].st = "pending"}) = 1
         /\ \E i \in 1..Len(req[r].tasks) : req[r].tasks[i].st = "fulfilled")
        ~> (req[r].pc \in FinalPcs)

\* C9: once a request is cancelled none of its calls is in flight any more
\* (every one that was has been aborted), and a call of a request that has not
\* been cancelled is never aborted.
C9_SharedCancellationScope ==
    \A r \in Reqs :
        /\ req[r].aborted =>
              /\ \A i \in 1..Len(req[r].tasks) : req[r].tasks[i].st # "pending"
              /\ req[r].diag # "pending"
        /\ ~req[r].aborted =>
              /\ \A i \in 1..Len(req[r].tasks) : req[r].tasks[i].reason # "AbortError"
              /\ req[r].diag # "aborted"

\* The first request was cancelled with two calls in flight, both aborted; the
\* second request's call is in flight.
C9_Witness ==
    /\ nreq = 2
    /\ req[1].aborted /\ req[1].pc = "awaiting" /\ Len(req[1].tasks) = 2
    /\ \A i \in 1..2 : req[1].tasks[i] = Rejected("AbortError")
    /\ ~req[2].aborted /\ Len(req[2].tasks) >= 1
    /\ \A i \in 1..Len(req[2].tasks) : req[2].tasks[i].st = "pending"

RuleList == IF marginRules.present THEN marginRules.list ELSE << >>

BrandMatches ==
    { i \in 1..Len(RuleList) :
        /\ part.brand # ""
        /\ RuleList[i].rule_type = "brand"
        /\ SameIgnoringCase(RuleList[i].brand, part.brand) }

CategoryMatches ==
    { i \in 1..Len(RuleList) :
        /\ part.partType # ""
        /\ RuleList[i].rule_type = "category"
        /\ SameIgnoringCase(RuleList[i].category, part.partType) }

GlobalRules == { i \in 1..Len(RuleList) : RuleList[i].rule_type = "global" }

\* C2: for any rule list and any part, findMatchingRule returns a brand rule
\* whose brand equals the part's brand up to case if there is one; otherwise
\* a category rule whose category equals the part's category up to case if
\* there is one; otherwise a global rule if there is one; otherwise the
\* built-in fallback (global, percentage, 40, priority 0).  The priorities of
\* rules of other tiers play no part, an empty brand or category only skips
\* its tier, and a missing rule list behaves like an empty one.
C2_TierWaterfall ==
    matched # NoRule =>
        IF BrandMatches # {} THEN \E i \in BrandMatches : matched = RuleList[i]
        ELSE IF CategoryMatches # {} THEN \E i \in CategoryMatches : matched = RuleList[i]
        ELSE IF GlobalRules # {} THEN \E i \in GlobalRules : matched = RuleList[i]
        ELSE /\ matched.rule_type = "global"
             /\ matched.markup_type = "percentage"
             /\ matched.hasValue /\ matched.markup_value = 40
             /\ matched.hasPriority /\ matched.priority = 0

\* A brand rule won, spelled in another case than the part's brand, although
\* a rule of a lower tier that applies to the part carries a higher priority.
C2_Witness ==
    /\ matched # NoRule
    /\ \E i \in BrandMatches : matched = RuleList[i] /\ RuleList[i].brand # part.brand
    /\ \E j \in CategoryMatches \cup GlobalRules :
           Priority(RuleList[j]) > Priority(matched)

\* C3: for every cost >= 0 and every Percentage rule with any value v (zero
\* included), the list price is cost x (1 + v/100) rounded to cents and the
\* reported margin is list price - cost.
C3_PercentageListPrice ==
    (/\ priced # NoPrice
     /\ priced.appliedRule.markupType = "percentage"
     /\ priced.appliedRule.hasValue
     /\ priced.cost >= 0)
    => /\ priced.listPrice = RoundDiv(priced.cost * (100 + priced.appliedRule.value), 100)
       /\ priced.margin = priced.listPrice - priced.cost

\* ======================================================================
\* Claims about the filter and sort pipeline
\* ======================================================================
\* C4: in grouped mode the sorted output never interleaves two groups: no
\* result of another group lies between two results of the same group, for
\* every sort key and every filter setting.
C4_GroupsNeverInterleave ==
    GroupedMode =>
        LET out == sortedResults
        IN  \A i, j, k \in 1..Len(out) :
                (i < j /\ j < k /\ out[i].groupLabel = out[k].groupLabel)
                => out[j].groupLabel = out[i].groupLabel

\* The criteria the smart filter parsed from the text it was given.
SmartCriteria == parseSmartFilter(smartFilterText, availableBrands, availableVendors)

\* C5: a result whose brand is in the parsed criteria's excludedBrands does not
\* survive the filters that the smart-filter apply handler set from them,
\* whatever the brand-include set holds.
C5_ExcludedBrandsNeverSurvive ==
    (smartFilterActive /\ filters = handleSmartFilterApply(SmartCriteria))
    => LET kept == filteredResults
           excludedBrands == SmartCriteria.excludedBrands
       IN  \A i \in 1..Len(kept) : ~SeqIncludes(excludedBrands, kept[i].brand)

\* What the claim lets through: every constrained facet includes the result.
\* A price bound counts as supplied when it is not the default's.
InEveryFacet(p, f) ==
    /\ Len(f.brands) > 0 => SeqIncludes(f.brands, p.brand)
    /\ Len(f.vendors) > 0 => SeqIncludes(f.vendors, p.vendor)
    /\ Len(f.materials) > 0 => SeqIncludes(f.materials, p.material)
    /\ Len(f.tiers) > 0 => SeqIncludes(f.tiers, p.tier)
    /\ f.priceMin # DEFAULT_FILTERS.priceMin => p.cost >= f.priceMin
    /\ f.priceMax # DEFAULT_FILTERS.priceMax => p.cost <= f.priceMax
    /\ f.inStockOnly => p.deliveryHours <= 24

\* C6: a result survives filtering if and only if it passes every constrained
\* facet: brand, vendor, material and tier in the selected set when that set is
\* not empty, cost within the price bounds that were supplied, and delivery
\* within 24 hours when inStockOnly is set.
C6_SurvivesIffEveryFacet ==
    filteredResults = SelectSeq(enrichedResults, LAMBDA p : InEveryFacet(p, filters))

\* ======================================================================
\* Normalization
\* ======================================================================
\* What a faulty hit is normalized to if each faulty field degrades to its
\* default: a null entry counts as an empty object, a wrongly-typed field as absent.
Degraded(raw) ==
    IF ~raw.isObject THEN EmptyHit
    ELSE [f \in DOMAIN raw |->
            IF f = "wrong" THEN {}
            ELSE IF f \in raw.wrong
                 THEN IF f = "sources" THEN << >> ELSE ""
            ELSE IF f = "hasSources" THEN raw.hasSources /\ "sources" \notin raw.wrong
            ELSE raw[f]]

\* C11: a malformed upstream hit (missing, null or wrongly-typed fields)
\* degrades to default field values and never prevents the other hits of the
\* same answer, or the hits of the other calls, from being normalized and
\* returned: every answered call yields one result per hit.
C11_MalformedHitDegrades ==
    \A i \in DOMAIN normalized :
        normalized[i].done =>
            /\ ~normalized[i].threw
            /\ Len(normalized[i].results) = Len(upstream[i])
            /\ \A j \in 1..Len(upstream[i]) :
                   normalized[i].results[j]
                       = mapApiResult(Degraded(upstream[i][j]), j - 1, CallLabels[i])

\* C16: in either upstream shape a quality label of premium, oem or best
\* maps to tier best, a label of economy or good to tier good, any other
\* or absent label to tier better.
C16_TierOfQualityLabel ==
    \A i \in DOMAIN normalized :
        normalized[i].done /\ ~normalized[i].threw =>
            \A j \in 1..Len(upstream[i]) :
                LET raw   == upstream[i][j]
                    label == IF "qualityTier" \in raw.wrong THEN "" ELSE raw.qualityTier
                    tier  == normalized[i].results[j].tier
                IN  /\ label \in {"premium", "oem", "best"} => tier = "best"
                    /\ label \in {"economy", "good"} => tier = "good"
                    /\ label \notin {"premium", "oem", "best", "economy", "good"}
                           => tier = "better"

\* ======================================================================
\* More claims about the margin calculator
\* ======================================================================
\* The tiers of the matched matrix rule whose half-open interval [min, max)
\* contains the cost (a missing min is 0, a missing max is no upper end).
TiersContainingCost ==
    { i \in 1..Len(matched.matrix_rules) :
        LET t == matched.matrix_rules[i]
        IN  /\ (IF t.hasMin THEN t.min ELSE 0) <= priced.cost
            /\ t.hasMax => priced.cost < t.max }

\* C12: for a Matrix rule and cost > 0 the applied percentage is the pct of
\* the tier whose half-open interval [min, max) contains the cost (so a cost
\* equal to a tier's max belongs to the next tier); when no tier contains the
\* cost the rule's flat value is used; the list price is cost x (1 + pct/100)
\* rounded to cents.
C12_MatrixTierApplies ==
    (/\ matched # NoRule
     /\ priced # NoPrice
     /\ matched.markup_type = "matrix"
     /\ priced.cost > 0
     /\ TiersContainingCost # {} \/ matched.hasValue)
    => \E pct \in (IF TiersContainingCost # {}
                   THEN { matched.matrix_rules[i].pct : i \in TiersContainingCost }
                   ELSE { matched.markup_value }) :
           priced.listPrice = RoundDiv(priced.cost * (100 + pct), 100)

\* The cost equals the max of a tier of the matched matrix rule and the part
\* was priced at another percentage than that tier's.
C12_Witness ==
    /\ matched # NoRule
    /\ priced # NoPrice
    /\ matched.markup_type = "matrix"
    /\ priced.cost > 0
    /\ \E i \in 1..Len(matched.matrix_rules) :
          LET t == matched.matrix_rules[i]
          IN  /\ t.hasMax /\ t.max = priced.cost
              /\ i \notin TiersContainingCost
              /\ priced.listPrice # RoundDiv(priced.cost * (100 + t.pct), 100)

\* C13: for every enriched part with cost > 0 the reported margin is the list
\* price actually computed minus the cost, also when a Fixed rule with a
\* negative value makes the list price (cost + value, reported as it is)
\* equal to or lower than the cost: the zero or negative margin is reported,
\* never clamped or special-cased.
C13_MarginIsListPriceMinusCost ==
    (priced # NoPrice /\ priced.cost > 0)
    => /\ priced.margin = priced.listPrice - priced.cost
       /\ (priced.appliedRule.markupType = "fixed" /\ priced.appliedRule.hasValue)
              => priced.listPrice = priced.cost + priced.appliedRule.value

WinningTier ==
    IF BrandMatches # {} THEN BrandMatches
    ELSE IF CategoryMatches # {} THEN CategoryMatches
    ELSE GlobalRules

\* C15: when several rules of the winning tier match the part,
\* findMatchingRule returns the one with the highest priority (a missing
\* priority counts as 0) and, among rules of equal priority, the one that
\* comes first in the supplied list; priority never lets a rule of a lower
\* tier win.
C15_PriorityWithinTier ==
    (matched # NoRule /\ WinningTier # {})
    => LET top  == { i \in WinningTier :
                       \A j \in WinningTier :
                           Priority(RuleList[j]) <= Priority(RuleList[i]) }
       IN  matched = RuleList[SetMin(top)]

\* Two different rules of the winning tier match; the later one in the list
\* carries the higher priority and was returned.
C15_Witness ==
    /\ matched # NoRule
    /\ \E i, j \in WinningTier :
          /\ i < j
          /\ Priority(RuleList[j]) > Priority(RuleList[i])
          /\ matched = RuleList[j]
          /\ matched # RuleList[i]

\* ======================================================================
\* More claims about the filter and sort pipeline
\* ======================================================================
\* The places of the displayed list whose row is flagged as the top pick.
Flagged(out) == { i \in 1..Len(out) : isMarcusPick(out[i]) }

\* C17: when the Marcus-pick sort is active and the displayed list is not
\* empty, exactly one displayed result is flagged as top pick and it has the
\* highest relevance score of all displayed results, in flat and in grouped
\* mode; when any other sort is active no result is flagged.
C17_OneTopPickWithHighestScore ==
    LET out == sortedResults
    IN  IF sortBy = "marcus_pick" /\ Len(out) > 0
        THEN /\ Cardinality(Flagged(out)) = 1
             /\ \A i \in Flagged(out) : \A j \in 1..Len(out) :
                    out[i].marcusScore >= out[j].marcusScore
        ELSE Flagged(out) = {}

\* The chosen comparator orders by this key, smallest first.
SortKey(p) ==
    IF sortBy = "best_margin" THEN 0 - p.margin
    ELSE IF sortBy = "lowest_cost" THEN p.cost
    ELSE IF sortBy = "fastest_delivery" THEN p.deliveryHours
    ELSE 0 - p.marcusScore

\* The filtered results that carry a label, in normalization order.
OfGroup(results, label) == SelectSeq(results, LAMBDA p : p.groupLabel = label)

\* Where the rows of the first k groups end in the output.
RECURSIVE GroupEnd(_, _, _)
GroupEnd(results, groups, k) ==
    IF k = 0 THEN 0
    ELSE GroupEnd(results, groups, k - 1) + Len(OfGroup(results, groups[k].label))

\* The rows of the k-th group in the output.
Segment(out, results, groups, k) ==
    SubSeq(out, GroupEnd(results, groups, k - 1) + 1, GroupEnd(results, groups, k))

\* C18: in grouped mode the groups appear in the output in the order their
\* queries were issued, whatever the sort key, and within each group the
\* results are ordered by the chosen comparator (best margin: descending
\* margin; lowest cost: ascending cost; fastest delivery: ascending
\* deliveryHours; Marcus pick: descending relevance score).
C18_GroupsInQueryOrderSortedWithin ==
    GroupedMode =>
        LET out  == sortedResults
            kept == filteredResults
        IN  /\ Len(out) = GroupEnd(kept, partGroups, Len(partGroups))
            /\ \A k \in 1..Len(partGroups) :
                  LET rows == Segment(out, kept, partGroups, k)
                  IN  /\ \A i \in 1..Len(rows) : rows[i].groupLabel = partGroups[k].label
                      /\ \A i \in 1..(Len(rows) - 1) : SortKey(rows[i]) <= SortKey(rows[i + 1])

\* The lowest-cost tab was chosen, two groups have rows in the output and
\* the sort moved a result ahead of one that was normalized before it.
C18_Witness ==
    /\ GroupedMode
    /\ sortBy = "lowest_cost"
    /\ LET out  == sortedResults
           kept == filteredResults
       IN  /\ \E i, j \in 1..Len(out) : out[i].groupLabel # out[j].groupLabel
           /\ \E k \in 1..Len(partGroups) :
                 /\ Len(Segment(out, kept, partGroups, k)) > 1
                 /\ Segment(out, kept, partGroups, k) # OfGroup(kept, partGroups[k].label)

\* The results of equal sort key are in the same order in both lists.
TiesKeepOrder(rows, input) ==
    \A p \in { rows[i] : i \in 1..Len(rows) } :
        SelectSeq(rows, LAMBDA r : SortKey(r) = SortKey(p))
            = SelectSeq(input, LAMBDA r : SortKey(r) = SortKey(p))

\* C19: for every sort key, results with equal sort keys keep their relative
\* order from normalization, in flat mode and within each group in grouped mode.
C19_StableUnderTies ==
    LET out  == sortedResults
        kept == filteredResults
    IN  IF GroupedMode
        THEN \A k \in 1..Len(partGroups) :
                 TiesKeepOrder(Segment(out, kept, partGroups, k),
                               OfGroup(kept, partGroups[k].label))
        ELSE TiesKeepOrder(out, kept)

\* Two different results of one group have the same sort key, and the sort
\* moved another result of the list.
C19_Witness ==
    LET out  == sortedResults
        kept == filteredResults
    IN  /\ out # kept
        /\ \E i, j \in 1..Len(out) :
              /\ i < j
              /\ out[i] # out[j]
              /\ out[i].groupLabel = out[j].groupLabel
              /\ SortKey(out[i]) = SortKey(out[j])

\* No brand, vendor, material or tier is selected, no price bound is set
\* and inStockOnly is off.
AllEmpty(f) ==
    /\ f.brands = << >> /\ f.vendors = << >> /\ f.materials = << >> /\ f.tiers = << >>
    /\ f.priceMin = 0 /\ f.priceMax = DEFAULT_FILTERS.priceMax
    /\ ~f.inStockOnly

\* C20: whenever the filter criteria are all-empty, initially and after
\* clear-all or smart-filter clear following any sequence of filter changes,
\* filtering returns exactly the input results, unchanged and in the same order.
C20_EmptyCriteriaFilterNothing ==
    AllEmpty(filters) => filteredResults = enrichedResults

\* The criteria are all-empty again after filter changes, and the results
\* hold one that costs more than the default price cap.
C20_Witness ==
    /\ edits = MaxEdits
    /\ AllEmpty(filters)
    /\ ~smartFilterActive
    /\ \E i \in 1..Len(enrichedResults) : enrichedResults[i].cost > DEFAULT_FILTERS.priceMax
    /\ filteredResults = enrichedResults

\* ======================================================================
\* The smart filter's parser
\* ======================================================================
\* The example of the parser's documentation
ExampleInput ==
    [text |-> "ceramic under $30 not Duralast in stock",
     availableBrands |-> << "Duralast", "Akebono" >>,
     availableVendors |-> << >>]

\* C22: parsing "ceramic under $30 not Duralast in stock" with the known
\* brands Duralast, Akebono and no known vendor gives materials = [Ceramic],
\* priceMax = 30, excludedBrands = [Duralast], brands = [Akebono],
\* inStockOnly = true, and nothing else: no tiers, no vendors, no price floor.
C22_SmartFilterExample ==
    (parseResult.done /\ smartInput = ExampleInput) =>
        parseResult.out =
            [materials |-> << "Ceramic" >>,
             hasPriceMax |-> TRUE, priceMax |-> 3000,
             hasPriceMin |-> FALSE, priceMin |-> 0,
             inStockOnly |-> TRUE,
             tiers |-> << >>,
             excludedBrands |-> << "Duralast" >>,
             brands |-> << "Akebono" >>,
             vendors |-> << >>]

C22_Witness == parseResult.done /\ smartInput = ExampleInput

Members(seq) == { seq[i] : i \in 1..Len(seq) }

\* The known brands the text names and the parser did not exclude
ExplicitlyIncluded ==
    { b \in Members(smartInput.availableBrands) :
        /\ includes(trim(Lower(smartInput.text)), Lower(b))
        /\ b \notin Members(parseResult.out.excludedBrands) }

\* C23: for any text and any list of known brands the parser's brands and
\* excludedBrands are disjoint, a known brand that the text names and that
\* is not excluded is in brands, and when a brand is excluded and none is
\* explicitly included, brands is the known brands without the excluded ones.
C23_BrandsDisjointAndDefaulted ==
    parseResult.done =>
        LET out == parseResult.out
            explicit == ExplicitlyIncluded
        IN  /\ Members(out.brands) \cap Members(out.excludedBrands) = {}
            /\ explicit \subseteq Members(out.brands)
            /\ (Len(out.excludedBrands) > 0 /\ explicit = {}) =>
                   out.brands = SelectSeq(smartInput.availableBrands,
                                          LAMBDA b : b \notin Members(out.excludedBrands))

\* A text that excludes one known brand and names another, both handed to the parser
C23_Witness ==
    /\ parseResult.done
    /\ smartInput.text = "akebono not duralast"
    /\ parseResult.out.excludedBrands = << "Duralast" >>
    /\ parseResult.out.brands = << "Akebono" >>
    /\ Len(smartInput.availableBrands) = 2

\* ======================================================================
\* Normalization: delivery time and price
\* ======================================================================
\* Where the normalizer reads the shipping of a hit: the best source of a
\* consolidated hit, the hit itself otherwise
ShippingOf(raw) == IF isConsolidated(raw) THEN bestSrc(raw) ELSE raw

\* The search calls that have been normalized, with the place of each hit
NormalizedHits ==
    { <<c, i>> \in (DOMAIN normalized) \X (1..MaxBatch + 1) :
        /\ normalized[c].done
        /\ ~normalized[c].threw
        /\ i <= Len(normalized[c].results) }

\* C24: every normalized hit has deliveryHours = max(days, 1) x 24 when an
\* estimated-days figure is present (a zero or negative one too), else 48
\* when free shipping is flagged, else 72; so deliveryHours is at least 1.
C24_DeliveryHours ==
    \A h \in NormalizedHits :
        LET ship == ShippingOf(upstream[h[1]][h[2]])
            hours == normalized[h[1]].results[h[2]].deliveryHours
        IN  /\ ship.hasDays =>
                hours = 24 * SetMax({ship.shippingDays, 1})
            /\ (~ship.hasDays /\ ship.freeShipping) => hours = 48
            /\ (~ship.hasDays /\ ~ship.freeShipping) => hours = 72
            /\ hours >= 1

\* One answer with a hit of zero days (24 hours) and a hit without a figure
\* and without free shipping (72 hours) has been normalized.
C24_Witness ==
    \E h, g \in NormalizedHits :
        /\ h[1] = g[1]
        /\ ShippingOf(upstream[h[1]][h[2]]).hasDays
        /\ ShippingOf(upstream[h[1]][h[2]]).shippingDays = 0
        /\ normalized[h[1]].results[h[2]].deliveryHours = 24
        /\ ~ShippingOf(upstream[g[1]][g[2]]).hasDays
        /\ normalized[g[1]].results[g[2]].deliveryHours = 72

\* No price in any field of the hit: price, bestPrice, a source's price
Priceless(raw) ==
    /\ raw.price = 0
    /\ raw.bestPrice = 0
    /\ \A s \in 1..Len(raw.sources) : raw.sources[s].price = 0

\* C25: a hit with no price in any recognized field is normalized to cost 0
\* and enriched, under any rule list, to listPrice 0, margin 0 and
\* marginPct 0; nothing is raised for it and it stays in the results.
C25_PricelessHitIsUnsellable ==
    \A h \in NormalizedHits :
        LET raw == upstream[h[1]][h[2]]
            out == normalized[h[1]].results[h[2]]
        IN  Priceless(raw) =>
                /\ Len(normalized[h[1]].results) = Len(upstream[h[1]])
                /\ out.cost = 0
                /\ \A rules \in RuleLists :
                       LET p == enrichPartWithMargin(out, rules, "")
                       IN  /\ p.id = out.id
                           /\ p.cost = 0
                           /\ p.listPrice = 0
                           /\ p.margin = 0
                           /\ p.marginPct = 0

\* An answer holding a hit without a price, in each shape, has been normalized.
C25_Witness ==
    \E h, g \in NormalizedHits :
        /\ h[1] = g[1]
        /\ Priceless(upstream[h[1]][h[2]]) /\ ~isConsolidated(upstream[h[1]][h[2]])
        /\ Priceless(upstream[g[1]][g[2]]) /\ isConsolidated(upstream[g[1]][g[2]])
        /\ normalized[h[1]].results[h[2]].cost = 0
        /\ normalized[g[1]].results[g[2]].cost = 0

\* ======================================================================
\* The results page: empty requests, cancellation, loading, groups
\* ======================================================================
\* No query text and no part query: the q and marcus params are absent and
\* the parts param is absent, empty or unparsable
EmptyQueryList(url) == Query(url) = "" /\ Len(url.partQueries) = 0

\* C21: a request with an empty query list (no query text, or a parts list
\* that is empty or unparsable) leaves an empty result list, an empty group
\* list and no error, whatever an earlier request left on the page.
C21_EmptyQueryListYieldsNothing ==
    (/\ mounted
     /\ nreq > 0
     /\ EmptyQueryList(req[nreq].url)
     /\ req[nreq].pc \in FinalPcs \cup {"skipped"})
        => (rawResults = << >> /\ partGroups = << >> /\ error = NULL)

\* C26: once a request has been cancelled (its effect cleaned up by a change
\* of the search params or by leaving the page) it writes no results, no
\* groups and no error and posts nothing to the search history, whatever its
\* branch and whatever the order in which the calls finish.
C26_CancelledRequestWritesNothing ==
    [][\A r \in Reqs :
        (req[r].aborted /\ Finishes(r)) =>
            /\ rawResults' = rawResults
            /\ partGroups' = partGroups
            /\ error' = error
            /\ history' = history]_vars

\* C27: while the request started last is in flight the loading flag is
\* set; neither the completion nor the cancellation of an older request
\* clears it.
C27_LoadingWhileCurrentInFlight ==
    (mounted /\ nreq > 0 /\ req[nreq].pc \in {"awaiting", "diagnosing"}) => loading

\* C28: when a request finishes (with results, with every query failed,
\* with a diagnosis without parts, with an error) the stored groups and the
\* stored results are both that request's: its groups and merged hits after
\* a fan-out, no groups otherwise, and no results unless it ran to its end.
C28_GroupsAndResultsOfOneRequest ==
    [][\A r \in Reqs :
        (mounted /\ ~req[r].aborted /\ Finishes(r)) =>
            IF req'[r].pc = "done" /\ req[r].branch \in FanOut
            THEN /\ partGroups' = Groups(req[r].pairs, req[r].tasks)
                 /\ rawResults' = RemoveExcluded(HitsOfFulfilled(req[r].tasks), shopExcluded)
            ELSE /\ partGroups' = << >>
                 /\ req'[r].pc # "done" => rawResults' = << >>
                 /\ \A i \in 1..Len(rawResults') : rawResults'[i].groupLabel = NULL]_vars

\* ======================================================================
\* The sorted list and the selection
\* ======================================================================
\* How often x is an entry of seq
Occurrences(seq, x) == Cardinality({ i \in 1..Len(seq) : seq[i] = x })

\* C29: in grouped mode the sorted output is a permutation of the filtered
\* results: every filtered result is in it exactly once, none is lost and
\* none is doubled, also when two queries carry the same label or a group
\* has no results.
C29_GroupedOutputIsPermutation ==
    GroupedMode =>
        LET filtered == filteredResults
            sorted == sortedResults
        IN  /\ Len(sorted) = Len(filtered)
            /\ \A i \in 1..Len(filtered) :
                   Occurrences(sorted, filtered[i]) = Occurrences(filtered, filtered[i])

\* C30: whatever rows were selected and whatever filters, sort and bulk
\* orders followed, every selected id is the id of a row of the displayed
\* list, so the number on the "Add N to Order" button is the number of
\* parts the bulk order submits; the bulk order empties the selection.
C30_SelectionIsDisplayed ==
    [][/\ selectedIds \subseteq DisplayedIds
       /\ orders' # orders =>
              /\ Len(orders') = Len(orders) + Cardinality(selectedIds)
              /\ selectedIds' = {}]_vars

====
